---------------------------- MODULE Spec2Model ----------------------------
(***************************************************************************)
(* Kepco BIT 802E simulator (kepco_simulator.py): the device model         *)
(* KepcoDevice, its SCPI command interpreter, the background LIST          *)
(* executor (_list_runner) and the TCP server's per-connection handler     *)
(* (SCPIServer._client_handler).                                           *)
(*                                                                         *)
(* Threads.  Every accepted connection is served by a thread of its own    *)
(* that calls KepcoDevice.process directly, and every LIST run is a        *)
(* further thread.  The only synchronisation is KepcoDevice._lock          *)
(* (a `with self._lock:` block is one atomic step), the threading.Event    *)
(* _list_stop_event (is_set / set / clear are atomic) and the server's     *)
(* _state_lock.  An action below is one such atomic step together with     *)
(* the thread-local computation around it; conn[c].pc and runner[r].pc     *)
(* are the positions of the threads between their steps.                   *)
(*                                                                         *)
(* Units.  Voltages and currents are integers in units of 0.001 (mV, mA);  *)
(* dwell times are integers in units of 0.0001 s.                          *)
(***************************************************************************)
EXTENDS Integers, Sequences, FiniteSets, TLC

(***************************************************************************)
(* Program constants                                                       *)
(***************************************************************************)
MAX_LIST_POINTS == 1002
MAX_SEQ_POINTS == 512
NOISE_AMPLITUDE == 2
LIST_DWELL_MIN == 5
LIST_DWELL_MAX == 100000
SLICE == 500
FOREVER_ITERS == 999999

E_COMMAND == -100
E_EXECUTION == -200
E_CONFLICT == -221
E_RANGE == -222

(***************************************************************************)
(* Bounds of the model                                                     *)
(***************************************************************************)
\* connections that may be open at the same time
MaxConns == 2
\* LIST executor threads that may be alive at the same time
MaxRunners == 2
\* command lines the server receives in one behaviour
MaxLines == 4
MaxInFlight == 2
\* calls of run_list and stop in a behaviour of SpecStop
MaxCalls == 3
MaxThreads == 2
UploadTotal == 1500

\* kepco_ui.py
UI_MAX_LIST_POINTS == 1000
CHUNK_CMD_LIMIT == 200
LIST_VALUES_PER_CMD == 10
\* len("LIST:VOLT ")
PREFIX_LEN == 10
\* for _ in range(20)
DRAIN_TURNS == 20

Conns == 1..MaxConns
Runners == 1..MaxRunners
Servers == {"telnet", "socket"}
None == 0

(***************************************************************************)
(* Command fragments.  A fragment is what process() hands to _dispatch:    *)
(* op is the matched command header, n a scalar argument, xs a list        *)
(* argument.  A line is the sequence of fragments process() splits it in.  *)
(***************************************************************************)
F(op) == [op |-> op, n |-> 0, xs |-> <<>>]
FN(op, n) == [op |-> op, n |-> n, xs |-> <<>>]
FL(op, xs) == [op |-> op, n |-> 0, xs |-> xs]
NoFrag == F("none")

Err(code, msg) == [code |-> code, msg |-> msg]
NoError == Err(0, "No error")
Resp(n, s) == [n |-> n, s |-> s]

VARIABLES
    \* KepcoDevice fields (reset(), lines 70-117)
    output_on, func_mode, volt_setpoint, curr_setpoint, volt_saved, curr_saved,
    volt_mode, curr_mode,
    list_volt, list_curr, list_dwel, list_count, list_count_skip, list_dir,
    list_gen, list_seq,
    list_running, list_step_idx, list_iteration,
    error_queue, cmd_count, query_count,
    \* KepcoDevice._list_stop_event (threading.Event)
    list_stop_event,
    \* the _list_runner threads
    runner,
    \* SCPIServer._list_owner_conn, one per server
    list_owner_conn,
    \* the _client_handler threads, one per connection
    conn,
    \* lines received so far (bounded by MaxLines)
    rx_lines,
    \* history variables, written by no program step's guard
    hScenario, hOffOn, hRunConn, hAfter,
    \* the KepcoController of kepco_ui.py inside upload_list_chunk, with the
    \* lines it has written to its socket
    ctl

outVars == <<output_on, func_mode, volt_setpoint, curr_setpoint, volt_saved, curr_saved>>
modeVars == <<volt_mode, curr_mode>>
listCfgVars == <<list_volt, list_curr, list_dwel, list_count, list_count_skip,
                 list_dir, list_gen, list_seq>>
progressVars == <<list_running, list_step_idx, list_iteration>>
statVars == <<error_queue, cmd_count, query_count>>
deviceVars == <<outVars, modeVars, listCfgVars, progressVars, statVars>>
histVars == <<hScenario, hOffOn, hRunConn, hAfter>>
vars == <<deviceVars, list_stop_event, runner, list_owner_conn, conn, rx_lines,
          histVars, ctl>>

(***************************************************************************)
(* Pure helpers                                                            *)
(***************************************************************************)
Abs(x) == IF x < 0 THEN -x ELSE x
Min(a, b) == IF a < b THEN a ELSE b

Take(s, k) == IF k <= 0 THEN <<>> ELSE SubSeq(s, 1, Min(k, Len(s)))
Drop(s, k) == IF k <= 0 THEN s ELSE SubSeq(s, Min(k, Len(s)) + 1, Len(s))

RECURSIVE Reverse(_)
Reverse(s) == IF s = <<>> THEN <<>> ELSE Append(Reverse(Tail(s)), Head(s))

RECURSIVE SelectSeqLt(_, _)
\* [s for s in seq if s < n]
SelectSeqLt(s, n) ==
    IF s = <<>> THEN <<>>
    ELSE IF Head(s) < n THEN <<Head(s)>> \o SelectSeqLt(Tail(s), n)
         ELSE SelectSeqLt(Tail(s), n)

\* list(range(n))
Range0(n) == [i \in 1..n |-> i - 1]

RECURSIVE Pow10Above(_, _)
\* the least power of ten p (>= start) with a < 10^7 * p
Pow10Above(a, p) == IF a < 10000000 * p THEN p ELSE Pow10Above(a, p * 10)

\* f"{v:.6E}": seven significant digits, round half to even
Fmt6E(v) ==
    LET a == Abs(v)
        p == Pow10Above(a, 1)
        q == a \div p
        r == a % p
        up == (2 * r > p) \/ (2 * r = p /\ q % 2 = 1)
        m == (IF up THEN q + 1 ELSE q) * p
    IN  IF v < 0 THEN -m ELSE m

(***************************************************************************)
(* Thread records                                                          *)
(***************************************************************************)
IdleConn == [st |-> "closed", srv |-> "socket", pc |-> "next", parts |-> <<>>,
             cur |-> NoFrag, ret |-> "next", err |-> NoError, vals |-> <<>>,
             val |-> Resp(0, ""), resp |-> <<>>,
             \* history field: the mode a VOLT:MODE LIST / CURR:MODE LIST
             \* handler found before it wrote LIST
             old |-> "",
             \* the echo sent for the line being processed (<<>>: none)
             echo |-> <<>>,
             \* the with self._lock blocks and lock-free steps the thread has
             \* still to run, and whether it holds the device lock
             blocks |-> <<>>, holds |-> FALSE]

OpenConn(s) == [IdleConn EXCEPT !.st = "open", !.srv = s]

\* what a run will do: the error it ends with at once (code 0: none), or the
\* resolved order with the iteration count and skip
NoPlan == [err |-> 0, order |-> <<>>, count |-> 0, skip |-> 0]

IdleRunner == [pc |-> "idle", points |-> <<>>, dwells |-> <<>>, count |-> 0,
               skip |-> 0, order |-> <<>>, err |-> NoError, iteration |-> 0,
               k |-> 0, remaining |-> 0,
               \* history fields
               starter |-> None, cancelled |-> FALSE, pre_reset |-> FALSE,
               plan0 |-> NoPlan, steps |-> 0,
               \* history: the command whose _start_list started the thread
               via |-> "none",
               \* the with self._lock blocks and lock-free steps the thread has
               \* still to run, and whether it holds the device lock
               blocks |-> <<>>, holds |-> FALSE]

Alive(r) == runner[r].pc # "idle"

(***************************************************************************)
(* KepcoDevice.reset: the power-on defaults                                *)
(***************************************************************************)
ResetFields ==
    /\ output_on' = FALSE
    /\ func_mode' = "VOLT"
    /\ volt_setpoint' = 0
    /\ curr_setpoint' = 0
    /\ volt_saved' = 0
    /\ curr_saved' = 0
    /\ volt_mode' = "FIX"
    /\ curr_mode' = "FIX"
    /\ list_volt' = <<>>
    /\ list_curr' = <<>>
    /\ list_dwel' = <<>>
    /\ list_count' = 1
    /\ list_count_skip' = 0
    /\ list_dir' = "UP"
    /\ list_gen' = "DSEQ"
    /\ list_seq' = <<>>
    /\ list_running' = FALSE
    /\ list_step_idx' = 0
    /\ list_iteration' = 0
    /\ error_queue' = <<>>
    /\ cmd_count' = 0
    /\ query_count' = 0

\* KepcoDevice.__init__ followed by SCPIServer.__init__; no client connected
InitProgram ==
    /\ output_on = FALSE
    /\ func_mode = "VOLT"
    /\ volt_setpoint = 0
    /\ curr_setpoint = 0
    /\ volt_saved = 0
    /\ curr_saved = 0
    /\ volt_mode = "FIX"
    /\ curr_mode = "FIX"
    /\ list_volt = <<>>
    /\ list_curr = <<>>
    /\ list_dwel = <<>>
    /\ list_count = 1
    /\ list_count_skip = 0
    /\ list_dir = "UP"
    /\ list_gen = "DSEQ"
    /\ list_seq = <<>>
    /\ list_running = FALSE
    /\ list_step_idx = 0
    /\ list_iteration = 0
    /\ error_queue = <<>>
    /\ cmd_count = 0
    /\ query_count = 0
    /\ list_stop_event = FALSE
    /\ runner = [r \in Runners |-> IdleRunner]
    /\ list_owner_conn = [s \in Servers |-> None]
    /\ rx_lines = 0

NoScenario == [ph |-> 0, c |-> None, x |-> 0, got |-> 0]
NoOffOn == [ph |-> "none", v |-> 0, i |-> 0]
NoAfter == [op |-> "none", x |-> 0]

\* send_query returned None
NoReply == Resp(0, "None")

\* a connected KepcoController outside upload_list_chunk.  points .. errors
\* are the locals of the call, tx the lines written to the socket and not
\* yet read by the instrument; log, progress, pcount and calls are history:
\* the LIST commands sent, the progress_cb calls, the answer to POIN? and
\* the number of calls.  sock, ip and last_error are the attributes of that
\* name (a socket is held, an address is known); ret is what the last
\* send_cmd / send_query returned; op, fault and attempts are history: the
\* last primitive called, the transport error it met and the connection
\* attempts it made
IdleCtl ==
    [pc |-> "idle", connected |-> TRUE, points |-> <<>>, dwell |-> 0, i |-> 0,
     k |-> 0, buf |-> <<>>, sent |-> 0, errors |-> <<>>,
     result |-> [ok |-> FALSE, msg |-> "none"], tx |-> <<>>,
     log |-> <<>>, progress |-> <<>>, pcount |-> NoReply, calls |-> 0,
     sock |-> TRUE, ip |-> TRUE, last_error |-> "", ret |-> NoReply,
     op |-> "none", fault |-> "none", attempts |-> 0,
     \* run_list / stop: the commands of the for loop not yet sent; history:
     \* the method called and the commands it has sent
     cmds |-> <<>>, call |-> "none", ops |-> <<>>, named |-> "none",
     lock |-> 0, th |-> <<>>]

InitHistory ==
    /\ hScenario = NoScenario
    /\ hOffOn = NoOffOn
    /\ hRunConn = None
    /\ hAfter = NoAfter
    /\ ctl = IdleCtl

(***************************************************************************)
(* History of a connection's step (read by the claims only).               *)
(*   hScenario follows one connection through VOLT x, OUTP ON, MEAS:VOLT?  *)
(*   issued back to back from a state with the output off and no list      *)
(*   running, with no step of any other thread in between.                 *)
(*   hOffOn follows OUTP OFF then OUTP ON with no write to the setpoints   *)
(*   in between, remembering the setpoints OUTP OFF found.                 *)
(*   hRunConn is the connection whose command set list_running, that is    *)
(*   started the run in progress.                                          *)
(*   hAfter is the last VOLT x, CURR x or LIST:CLE processed, for as long   *)
(*   as the only commands begun since are the queries that read it back.   *)
(***************************************************************************)
ScenarioNext(c) ==
    LET pc == conn[c].pc
        own == hScenario.c = c
    IN  CASE pc = "volt_set" /\ ~output_on /\ ~list_running
               /\ \A r \in Runners : ~Alive(r) ->
                 [ph |-> 1, c |-> c, x |-> conn[c].cur.n, got |-> 0]
          [] pc = "outp_on" /\ own /\ hScenario.ph = 1 ->
                 [hScenario EXCEPT !.ph = 2]
          [] pc = "meas_volt" /\ own /\ hScenario.ph = 2 ->
                 [hScenario EXCEPT !.ph = 3, !.got = conn'[c].val.n]
          [] pc = "next" /\ own /\ hScenario.ph \in {1, 2} -> hScenario
          [] pc = "q" /\ own /\ hScenario.ph = 3 -> hScenario
          [] OTHER -> NoScenario

OffOnNext(c) ==
    LET pc == conn[c].pc
    IN  CASE pc = "outp_off" -> [ph |-> "off", v |-> volt_setpoint, i |-> curr_setpoint]
          [] pc = "outp_on" /\ hOffOn.ph = "off" -> [hOffOn EXCEPT !.ph = "on"]
          [] pc \in {"outp_on", "volt_set", "curr_set", "reset"} -> NoOffOn
          [] OTHER -> hOffOn

\* the queries that read back what the command op has written
ReadBack(op) ==
    CASE op = "VOLT" -> {"VOLT?"}
      [] op = "CURR" -> {"CURR?"}
      [] op = "LIST:CLE" -> {"LIST:VOLT:POIN?", "LIST:CURR:POIN?"}
      [] OTHER -> {}

AfterNext(c) ==
    LET pc == conn[c].pc
    IN  CASE pc = "volt_set" -> [op |-> "VOLT", x |-> conn[c].cur.n]
          [] pc = "curr_set" -> [op |-> "CURR", x |-> conn[c].cur.n]
          [] pc = "list_cle" -> [op |-> "LIST:CLE", x |-> 0]
          [] pc = "next" /\ conn[c].parts # <<>> ->
                 IF Head(conn[c].parts).op \in ReadBack(hAfter.op) THEN hAfter
                 ELSE NoAfter
          [] OTHER -> hAfter

\* the controller does not move in a step of the simulator
History(c) ==
    /\ ctl' = ctl
    /\ hScenario' = ScenarioNext(c)
    /\ hOffOn' = OffOnNext(c)
    /\ hAfter' = AfterNext(c)
    /\ hRunConn' = IF conn[c].pc = "start_lock" /\ ~list_running THEN c ELSE hRunConn

RunnerHistory(r) ==
    /\ ctl' = ctl
    /\ hScenario' = NoScenario
    /\ hOffOn' = hOffOn
    /\ hRunConn' = hRunConn
    /\ hAfter' = hAfter

(***************************************************************************)
(* SCPIServer._client_handler: one thread per connection                   *)
(***************************************************************************)
AtRecv(c) == conn[c].st = "open" /\ conn[c].pc = "next" /\ conn[c].parts = <<>>

\* the first position of _dispatch's branch for a command header; a header
\* that matches no branch goes straight to _push_error(-100, ...)
Entry(op) ==
    CASE op = "*RST" -> "reset"
      [] op = "*CLS" -> "cls"
      [] op = "SYST:ERR?" -> "pop_error"
      [] op = "OUTP ON" -> "outp_on"
      [] op = "OUTP OFF" -> "outp_off"
      [] op \in {"FUNC:MODE VOLT", "FUNC:MODE CURR"} -> "func_mode"
      [] op = "*WAI" -> "wai"
      [] op = "VOLT" -> "volt_set"
      [] op = "VOLT?" -> "volt_q"
      [] op = "CURR" -> "curr_set"
      [] op = "CURR?" -> "curr_q"
      [] op \in {"VOLT:RANG", "CURR:RANG"} -> "rang"
      [] op = "LIST:VOLT:POIN?" -> "lv_poin"
      [] op = "LIST:CURR:POIN?" -> "lc_poin"
      [] op = "MEAS:VOLT?" -> "meas_volt"
      [] op = "MEAS:CURR?" -> "meas_curr"
      [] op \in {"VOLT:MODE FIX", "CURR:MODE FIX", "ABOR"} -> "stop_lock"
      [] op = "VOLT:MODE LIST" -> "volt_list"
      [] op = "CURR:MODE LIST" -> "curr_list"
      [] op = "LIST:CLE" -> "list_cle"
      [] op = "LIST:VOLT" -> "lv_check"
      [] op = "LIST:CURR" -> "lc_check"
      [] op = "LIST:DWEL" -> "ld_space"
      [] op = "LIST:COUN" -> "list_coun"
      [] op = "LIST:COUN:SKIP" -> "list_skip"
      [] op \in {"LIST:DIR UP", "LIST:DIR DOWN"} -> "list_dir"
      [] op \in {"LIST:GEN DSEQ", "LIST:GEN SEQ"} -> "list_gen"
      [] op = "LIST:SEQ" -> "ls_space"
      [] OTHER -> "push_error"

\* where _dispatch continues when _stop_list returns
AfterStop(op) ==
    CASE op = "VOLT:MODE FIX" -> "volt_fix"
      [] op = "CURR:MODE FIX" -> "curr_fix"
      [] OTHER -> "next"

\* the handler's position moves to pc; its locals are kept
Goto(c, pc) == conn' = [conn EXCEPT ![c].pc = pc]

\* _dispatch returns None: back in process()'s loop over the parts
Return(c) ==
    conn' = [conn EXCEPT ![c].pc = "next", ![c].cur = NoFrag, ![c].ret = "next",
                         ![c].err = NoError, ![c].vals = <<>>, ![c].val = Resp(0, ""),
                         ![c].old = ""]

\* cmd.upper() in ("VOLT:MODE LIST", "CURR:MODE LIST"): the whole line is compared
IsStartLine(line) ==
    Len(line) = 1 /\ line[1].op \in {"VOLT:MODE LIST", "CURR:MODE LIST"}

\* a variant of the handler that echoes on both listeners
RecvLineEchoAll(c, Lines) ==
    /\ AtRecv(c)
    /\ rx_lines < MaxLines
    /\ \E line \in Lines :
          /\ conn' = [conn EXCEPT ![c].parts = line, ![c].resp = <<>>, ![c].echo = line]
          /\ list_owner_conn' =
                IF IsStartLine(line)
                THEN [list_owner_conn EXCEPT ![conn[c].srv] = c]
                ELSE list_owner_conn
    /\ rx_lines' = rx_lines + 1
    /\ UNCHANGED <<deviceVars, list_stop_event, runner>>
    /\ History(c)

\* a line arrives (recv, split at the newline); the echo-enabled server sends
\* the line back, the owner of the LIST run is recorded under _state_lock and
\* process() splits the line into its parts
RecvLine(c, Lines) ==
    /\ AtRecv(c)
    /\ rx_lines < MaxLines
    /\ \E line \in Lines :
          /\ conn' = [conn EXCEPT ![c].parts = line, ![c].resp = <<>>,
                                  ![c].echo = IF conn[c].srv = "telnet" THEN line
                                              ELSE <<>>]
          /\ list_owner_conn' =
                IF IsStartLine(line)
                THEN [list_owner_conn EXCEPT ![conn[c].srv] = c]
                ELSE list_owner_conn
    /\ rx_lines' = rx_lines + 1
    /\ UNCHANGED <<deviceVars, list_stop_event, runner>>
    /\ History(c)

\* process() takes the next part; _dispatch counts it under the lock
Begin(c) ==
    /\ conn[c].st = "open"
    /\ conn[c].pc = "next"
    /\ conn[c].parts # <<>>
    /\ cmd_count' = cmd_count + 1
    /\ conn' = [conn EXCEPT ![c].cur = Head(conn[c].parts),
                            ![c].parts = Tail(conn[c].parts),
                            ![c].pc = Entry(Head(conn[c].parts).op),
                            ![c].ret = AfterStop(Head(conn[c].parts).op),
                            ![c].err = IF Entry(Head(conn[c].parts).op) = "push_error"
                                       THEN Err(E_COMMAND, "Command error; unrecognised")
                                       ELSE NoError]
    /\ UNCHANGED <<outVars, modeVars, listCfgVars, progressVars, error_queue,
                   query_count, list_stop_event, runner, list_owner_conn, rx_lines>>
    /\ History(c)

\* *RST: reset()
Reset(c) ==
    /\ conn[c].pc = "reset"
    /\ ResetFields
    /\ Return(c)
    /\ runner' = [r \in Runners |->
                    IF Alive(r) THEN [runner[r] EXCEPT !.pre_reset = TRUE]
                    ELSE runner[r]]
    /\ UNCHANGED <<list_stop_event, list_owner_conn, rx_lines>>
    /\ History(c)

\* *CLS (the status registers are not part of this model)
Cls(c) ==
    /\ conn[c].pc = "cls"
    /\ error_queue' = <<>>
    /\ Return(c)
    /\ UNCHANGED <<outVars, modeVars, listCfgVars, progressVars, cmd_count,
                   query_count, list_stop_event, runner, list_owner_conn, rx_lines>>
    /\ History(c)

\* a variant of _push_error that appends the entry twice
PushErrorTwice(c) ==
    /\ conn[c].pc = "push_error"
    /\ error_queue' = error_queue \o <<conn[c].err, conn[c].err>>
    /\ IF conn[c].ret = "next" THEN Return(c)
       ELSE conn' = [conn EXCEPT ![c].pc = conn[c].ret, ![c].ret = "next",
                                 ![c].err = NoError]
    /\ UNCHANGED <<outVars, modeVars, listCfgVars, progressVars, cmd_count,
                   query_count, list_stop_event, runner, list_owner_conn, rx_lines>>
    /\ History(c)

\* _push_error(code, msg), then the handler goes on at conn[c].ret
PushError(c) ==
    /\ conn[c].pc = "push_error"
    /\ error_queue' = Append(error_queue, conn[c].err)
    /\ IF conn[c].ret = "next" THEN Return(c)
       ELSE conn' = [conn EXCEPT ![c].pc = conn[c].ret, ![c].ret = "next",
                                 ![c].err = NoError]
    /\ UNCHANGED <<outVars, modeVars, listCfgVars, progressVars, cmd_count,
                   query_count, list_stop_event, runner, list_owner_conn, rx_lines>>
    /\ History(c)

\* a variant of SYST:ERR? that returns the newest entry
PopErrorNewest(c) ==
    /\ conn[c].pc = "pop_error"
    /\ LET n == Len(error_queue)
           e == IF n > 0 THEN error_queue[n] ELSE NoError
       IN  conn' = [conn EXCEPT ![c].pc = "q", ![c].val = Resp(e.code, e.msg)]
    /\ error_queue' = Take(error_queue, Len(error_queue) - 1)
    /\ UNCHANGED <<outVars, modeVars, listCfgVars, progressVars, cmd_count,
                   query_count, list_stop_event, runner, list_owner_conn, rx_lines>>
    /\ History(c)

\* SYST:ERR?: _pop_error
PopError(c) ==
    /\ conn[c].pc = "pop_error"
    /\ LET e == IF error_queue # <<>> THEN Head(error_queue) ELSE NoError
       IN  conn' = [conn EXCEPT ![c].pc = "q", ![c].val = Resp(e.code, e.msg)]
    /\ error_queue' = IF error_queue # <<>> THEN Tail(error_queue) ELSE error_queue
    /\ UNCHANGED <<outVars, modeVars, listCfgVars, progressVars, cmd_count,
                   query_count, list_stop_event, runner, list_owner_conn, rx_lines>>
    /\ History(c)

\* _q: the response is counted and returned to process()
Q(c) ==
    /\ conn[c].pc = "q"
    /\ query_count' = query_count + 1
    /\ conn' = [conn EXCEPT ![c].pc = "next", ![c].cur = NoFrag, ![c].ret = "next",
                            ![c].val = Resp(0, ""),
                            ![c].resp = Append(conn[c].resp, conn[c].val)]
    /\ UNCHANGED <<outVars, modeVars, listCfgVars, progressVars, error_queue,
                   cmd_count, list_stop_event, runner, list_owner_conn, rx_lines>>
    /\ History(c)

\* the part of an output handler that is the same for all: nothing but the
\* output fields and the handler's position changes
OutputFrame(c) ==
    /\ Return(c)
    /\ UNCHANGED <<modeVars, listCfgVars, progressVars, statVars,
                   list_stop_event, runner, list_owner_conn, rx_lines>>
    /\ History(c)

\* a variant of OUTP ON that answers like a query
OutpOnAnswers(c) ==
    /\ conn[c].pc = "outp_on"
    /\ output_on' = TRUE
    /\ volt_setpoint' = volt_saved
    /\ curr_setpoint' = curr_saved
    /\ conn' = [conn EXCEPT ![c].pc = "q", ![c].val = Resp(1, "")]
    /\ UNCHANGED <<func_mode, volt_saved, curr_saved, modeVars, listCfgVars,
                   progressVars, statVars, list_stop_event, runner,
                   list_owner_conn, rx_lines>>
    /\ History(c)

\* OUTP ON
OutpOn(c) ==
    /\ conn[c].pc = "outp_on"
    /\ output_on' = TRUE
    /\ volt_setpoint' = volt_saved
    /\ curr_setpoint' = curr_saved
    /\ UNCHANGED <<func_mode, volt_saved, curr_saved>>
    /\ OutputFrame(c)

\* a variant that saves the setpoints only while the output is on
OutpOffSaveIfOn(c) ==
    /\ conn[c].pc = "outp_off"
    /\ volt_saved' = IF output_on THEN volt_setpoint ELSE volt_saved
    /\ curr_saved' = IF output_on THEN curr_setpoint ELSE curr_saved
    /\ output_on' = FALSE
    /\ volt_setpoint' = 0
    /\ curr_setpoint' = 0
    /\ UNCHANGED func_mode
    /\ OutputFrame(c)

\* OUTP OFF
OutpOff(c) ==
    /\ conn[c].pc = "outp_off"
    /\ volt_saved' = volt_setpoint
    /\ curr_saved' = curr_setpoint
    /\ output_on' = FALSE
    /\ volt_setpoint' = 0
    /\ curr_setpoint' = 0
    /\ UNCHANGED func_mode
    /\ OutputFrame(c)

\* VOLT x
VoltSet(c) ==
    /\ conn[c].pc = "volt_set"
    /\ volt_setpoint' = conn[c].cur.n
    /\ volt_saved' = IF output_on THEN conn[c].cur.n ELSE volt_saved
    /\ UNCHANGED <<output_on, func_mode, curr_setpoint, curr_saved>>
    /\ OutputFrame(c)

\* CURR x
CurrSet(c) ==
    /\ conn[c].pc = "curr_set"
    /\ curr_setpoint' = conn[c].cur.n
    /\ curr_saved' = IF output_on THEN conn[c].cur.n ELSE curr_saved
    /\ UNCHANGED <<output_on, func_mode, volt_setpoint, volt_saved>>
    /\ OutputFrame(c)

\* a variant of VOLT? that answers with the saved setpoint
VoltQuerySaved(c) ==
    /\ conn[c].pc = "volt_q"
    /\ conn' = [conn EXCEPT ![c].pc = "q", ![c].val = Resp(Fmt6E(volt_saved), "")]
    /\ UNCHANGED <<deviceVars, list_stop_event, runner, list_owner_conn, rx_lines>>
    /\ History(c)

\* VOLT?: the setpoint is read and formatted, then _q
VoltQuery(c) ==
    /\ conn[c].pc = "volt_q"
    /\ conn' = [conn EXCEPT ![c].pc = "q", ![c].val = Resp(Fmt6E(volt_setpoint), "")]
    /\ UNCHANGED <<deviceVars, list_stop_event, runner, list_owner_conn, rx_lines>>
    /\ History(c)

\* CURR?
CurrQuery(c) ==
    /\ conn[c].pc = "curr_q"
    /\ conn' = [conn EXCEPT ![c].pc = "q", ![c].val = Resp(Fmt6E(curr_setpoint), "")]
    /\ UNCHANGED <<deviceVars, list_stop_event, runner, list_owner_conn, rx_lines>>
    /\ History(c)

\* LIST:VOLT:POIN?: str(len(self.list_volt))
ListVoltPoin(c) ==
    /\ conn[c].pc = "lv_poin"
    /\ conn' = [conn EXCEPT ![c].pc = "q", ![c].val = Resp(Len(list_volt), "")]
    /\ UNCHANGED <<deviceVars, list_stop_event, runner, list_owner_conn, rx_lines>>
    /\ History(c)

\* LIST:CURR:POIN?: str(len(self.list_curr))
ListCurrPoin(c) ==
    /\ conn[c].pc = "lc_poin"
    /\ conn' = [conn EXCEPT ![c].pc = "q", ![c].val = Resp(Len(list_curr), "")]
    /\ UNCHANGED <<deviceVars, list_stop_event, runner, list_owner_conn, rx_lines>>
    /\ History(c)

\* *WAI: nothing to wait for
Wai(c) ==
    /\ conn[c].pc = "wai"
    /\ Return(c)
    /\ UNCHANGED <<deviceVars, list_stop_event, runner, list_owner_conn, rx_lines>>
    /\ History(c)

\* VOLT:RANG n / CURR:RANG n (the range fields are not part of this model)
Rang(c) ==
    /\ conn[c].pc = "rang"
    /\ Return(c)
    /\ UNCHANGED <<deviceVars, list_stop_event, runner, list_owner_conn, rx_lines>>
    /\ History(c)

(***************************************************************************)
(* Python list indexing: a negative index counts from the end, an index    *)
(* outside -len .. len-1 raises IndexError                                 *)
(***************************************************************************)
PyIndexOK(s, i) == -Len(s) <= i /\ i < Len(s)
PyIndex(s, i) == IF i >= 0 THEN s[i + 1] ELSE s[Len(s) + i + 1]

\* the exception leaves _dispatch and process(): the handler's finally runs next
Raise(c) ==
    conn' = [conn EXCEPT ![c].pc = "raise", ![c].cur = NoFrag, ![c].parts = <<>>,
                         ![c].ret = "next", ![c].err = NoError, ![c].vals = <<>>,
                         ![c].val = Resp(0, "")]

\* the value measure_volt / measure_curr bases its answer on, for the
\* setpoint and the list of the measured quantity: <<ok, base>>
MeasureBase(setpoint, list) ==
    IF list_running /\ list # <<>>
    THEN LET idx == Min(list_step_idx, Len(list) - 1)
         IN  IF PyIndexOK(list, idx) THEN <<TRUE, PyIndex(list, idx)>>
             ELSE <<FALSE, 0>>
    ELSE <<TRUE, setpoint>>

Measure(c, setpoint, list) ==
    /\ IF ~output_on
       THEN conn' = [conn EXCEPT ![c].pc = "q", ![c].val = Resp(Fmt6E(0), "")]
       ELSE LET b == MeasureBase(setpoint, list)
            IN  IF b[1]
                THEN \E e \in -NOISE_AMPLITUDE..NOISE_AMPLITUDE :
                        conn' = [conn EXCEPT ![c].pc = "q",
                                             ![c].val = Resp(Fmt6E(b[2] + e), "")]
                ELSE Raise(c)
    /\ UNCHANGED <<deviceVars, list_stop_event, runner, list_owner_conn, rx_lines>>
    /\ History(c)

\* MEAS:VOLT?: measure_volt
MeasVolt(c) ==
    /\ conn[c].pc = "meas_volt"
    /\ Measure(c, volt_setpoint, list_volt)

\* MEAS:CURR?: measure_curr
MeasCurr(c) ==
    /\ conn[c].pc = "meas_curr"
    /\ Measure(c, curr_setpoint, list_curr)

\* FUNC:MODE VOLT / FUNC:MODE CURR
FuncMode(c) ==
    /\ conn[c].pc = "func_mode"
    /\ func_mode' = IF conn[c].cur.op = "FUNC:MODE VOLT" THEN "VOLT" ELSE "CURR"
    /\ volt_mode' = "FIX"
    /\ curr_mode' = "FIX"
    /\ Return(c)
    /\ UNCHANGED <<output_on, volt_setpoint, curr_setpoint, volt_saved, curr_saved,
                   listCfgVars, progressVars, statVars, list_stop_event, runner,
                   list_owner_conn, rx_lines>>
    /\ History(c)

(***************************************************************************)
(* _stop_list, called by VOLT:MODE FIX, CURR:MODE FIX, ABOR and by the     *)
(* handler's finally block                                                 *)
(***************************************************************************)
Demote(m) == IF m = "LIST" THEN "FIX" ELSE m

\* the runners that are alive now are those a stop request is meant for
MarkCancelled ==
    [r \in Runners |-> IF Alive(r) THEN [runner[r] EXCEPT !.cancelled = TRUE]
                       ELSE runner[r]]

\* with self._lock: list_running = False, LIST modes back to FIX
StopListLock(c) ==
    /\ conn[c].pc = "stop_lock"
    /\ list_running' = FALSE
    /\ volt_mode' = Demote(volt_mode)
    /\ curr_mode' = Demote(curr_mode)
    /\ Goto(c, "stop_set")
    /\ UNCHANGED <<outVars, listCfgVars, list_step_idx, list_iteration, statVars,
                   list_stop_event, runner, list_owner_conn, rx_lines>>
    /\ History(c)

\* self._list_stop_event.set(); _stop_list returns to its caller
StopListSet(c) ==
    /\ conn[c].pc = "stop_set"
    /\ list_stop_event' = TRUE
    /\ CASE conn[c].ret = "next" -> Return(c) /\ runner' = MarkCancelled
         [] conn[c].ret = "closed" -> conn' = [conn EXCEPT ![c] = IdleConn]
                                      /\ runner' = runner
         [] OTHER -> conn' = [conn EXCEPT ![c].pc = conn[c].ret, ![c].ret = "next"]
                     /\ runner' = runner
    /\ UNCHANGED <<deviceVars, list_owner_conn, rx_lines>>
    /\ History(c)

\* VOLT:MODE FIX, after _stop_list
VoltModeFix(c) ==
    /\ conn[c].pc = "volt_fix"
    /\ volt_mode' = "FIX"
    /\ Return(c)
    /\ runner' = MarkCancelled
    /\ UNCHANGED <<outVars, curr_mode, listCfgVars, progressVars, statVars,
                   list_stop_event, list_owner_conn, rx_lines>>
    /\ History(c)

\* CURR:MODE FIX, after _stop_list
CurrModeFix(c) ==
    /\ conn[c].pc = "curr_fix"
    /\ curr_mode' = "FIX"
    /\ Return(c)
    /\ runner' = MarkCancelled
    /\ UNCHANGED <<outVars, volt_mode, listCfgVars, progressVars, statVars,
                   list_stop_event, list_owner_conn, rx_lines>>
    /\ History(c)

(***************************************************************************)
(* What _list_runner reads under the lock (lines 170-178) and what it      *)
(* resolves from it before the iteration loop (lines 180-203)              *)
(***************************************************************************)
Config ==
    [points |-> IF func_mode = "VOLT" THEN list_volt ELSE list_curr,
     dwells |-> list_dwel, count |-> list_count, skip |-> list_count_skip,
     direction |-> list_dir, gen |-> list_gen, seq |-> list_seq]

\* a variant of the resolution without the single-entry dwell rule
ResolvedNoBroadcast(cfg) ==
    LET n == Len(cfg.points)
        base == IF cfg.gen = "DSEQ" THEN Range0(n) ELSE SelectSeqLt(cfg.seq, n)
        order == IF cfg.direction = "DOWN" THEN Reverse(base) ELSE base
        fail(e) == [err |-> e, points |-> <<>>, dwells |-> <<>>, order |-> <<>>,
                    count |-> 0, skip |-> 0]
    IN  IF cfg.points = <<>>
        THEN fail(Err(E_EXECUTION, "Execution error; list empty"))
        ELSE IF Len(cfg.dwells) # n
        THEN fail(Err(E_CONFLICT, "Settings conflict; dwell/point mismatch"))
        ELSE IF order = <<>>
        THEN fail(Err(E_CONFLICT, "Settings conflict; empty sequence"))
        ELSE [err |-> NoError, points |-> cfg.points, dwells |-> cfg.dwells,
              order |-> order, count |-> cfg.count, skip |-> cfg.skip]

Resolved(cfg) ==
    LET n == Len(cfg.points)
        dwells == IF Len(cfg.dwells) = 1 THEN [i \in 1..n |-> cfg.dwells[1]]
                  ELSE cfg.dwells
        base == IF cfg.gen = "DSEQ" THEN Range0(n) ELSE SelectSeqLt(cfg.seq, n)
        order == IF cfg.direction = "DOWN" THEN Reverse(base) ELSE base
        fail(e) == [err |-> e, points |-> <<>>, dwells |-> <<>>, order |-> <<>>,
                    count |-> 0, skip |-> 0]
    IN  IF cfg.points = <<>>
        THEN fail(Err(E_EXECUTION, "Execution error; list empty"))
        ELSE IF Len(dwells) # n
        THEN fail(Err(E_CONFLICT, "Settings conflict; dwell/point mismatch"))
        ELSE IF order = <<>>
        THEN fail(Err(E_CONFLICT, "Settings conflict; empty sequence"))
        ELSE [err |-> NoError, points |-> cfg.points, dwells |-> dwells,
              order |-> order, count |-> cfg.count, skip |-> cfg.skip]

PlanOf(res) ==
    [err |-> res.err.code, order |-> res.order, count |-> res.count, skip |-> res.skip]

(***************************************************************************)
(* VOLT:MODE LIST / CURR:MODE LIST and _start_list                         *)
(***************************************************************************)
\* with self._lock: self.volt_mode = "LIST"
VoltModeList(c) ==
    /\ conn[c].pc = "volt_list"
    /\ volt_mode' = "LIST"
    /\ conn' = [conn EXCEPT ![c].pc = "start_lock", ![c].old = volt_mode]
    /\ UNCHANGED <<outVars, curr_mode, listCfgVars, progressVars, statVars,
                   list_stop_event, runner, list_owner_conn, rx_lines>>
    /\ History(c)

\* with self._lock: self.curr_mode = "LIST"
CurrModeList(c) ==
    /\ conn[c].pc = "curr_list"
    /\ curr_mode' = "LIST"
    /\ conn' = [conn EXCEPT ![c].pc = "start_lock", ![c].old = curr_mode]
    /\ UNCHANGED <<outVars, volt_mode, listCfgVars, progressVars, statVars,
                   list_stop_event, runner, list_owner_conn, rx_lines>>
    /\ History(c)

\* a variant of _start_list that restarts the progress fields of a running list
StartListLockRestart(c) ==
    /\ conn[c].pc = "start_lock"
    /\ list_step_idx' = 0
    /\ list_iteration' = 0
    /\ IF list_running
       THEN /\ conn' = [conn EXCEPT ![c].pc = "push_error", ![c].ret = "next",
                           ![c].err = Err(E_CONFLICT, "Settings conflict; list already running")]
            /\ UNCHANGED list_running
       ELSE /\ list_running' = TRUE
            /\ Goto(c, "start_thread")
    /\ UNCHANGED <<outVars, modeVars, listCfgVars, statVars, list_stop_event,
                   runner, list_owner_conn, rx_lines>>
    /\ History(c)

\* _start_list, the locked test of list_running
StartListLock(c) ==
    /\ conn[c].pc = "start_lock"
    /\ IF list_running
       THEN /\ conn' = [conn EXCEPT ![c].pc = "push_error", ![c].ret = "next",
                           ![c].err = Err(E_CONFLICT, "Settings conflict; list already running")]
            /\ UNCHANGED progressVars
       ELSE /\ list_running' = TRUE
            /\ list_step_idx' = 0
            /\ list_iteration' = 0
            /\ Goto(c, "start_thread")
    /\ UNCHANGED <<outVars, modeVars, listCfgVars, statVars, list_stop_event,
                   runner, list_owner_conn, rx_lines>>
    /\ History(c)

FreeRunner == CHOOSE r \in Runners : ~Alive(r) /\ \A q \in Runners : ~Alive(q) => r <= q

\* _start_list: the stop event is cleared and the executor thread is started
StartListThread(c) ==
    /\ conn[c].pc = "start_thread"
    /\ \E r \in Runners : ~Alive(r)
    /\ list_stop_event' = FALSE
    /\ runner' = [runner EXCEPT ![FreeRunner] =
                     [IdleRunner EXCEPT !.pc = "snapshot", !.starter = c,
                                        !.via = conn[c].cur.op,
                                        !.plan0 = PlanOf(Resolved(Config))]]
    /\ Return(c)
    /\ UNCHANGED <<deviceVars, list_owner_conn, rx_lines>>
    /\ History(c)

(***************************************************************************)
(* LIST:* commands                                                         *)
(***************************************************************************)
ListFrame(c) ==
    /\ UNCHANGED <<outVars, modeVars, progressVars, statVars, list_stop_event,
                   runner, list_owner_conn, rx_lines>>
    /\ History(c)

\* a variant of LIST:CLE that leaves the current list alone
ListCleVoltOnly(c) ==
    /\ conn[c].pc = "list_cle"
    /\ list_volt' = <<>>
    /\ list_dwel' = <<>>
    /\ list_seq' = <<>>
    /\ list_count' = 1
    /\ list_count_skip' = 0
    /\ list_dir' = "UP"
    /\ list_gen' = "DSEQ"
    /\ Return(c)
    /\ UNCHANGED list_curr
    /\ ListFrame(c)

\* LIST:CLE
ListCle(c) ==
    /\ conn[c].pc = "list_cle"
    /\ list_volt' = <<>>
    /\ list_curr' = <<>>
    /\ list_dwel' = <<>>
    /\ list_seq' = <<>>
    /\ list_count' = 1
    /\ list_count_skip' = 0
    /\ list_dir' = "UP"
    /\ list_gen' = "DSEQ"
    /\ Return(c)
    /\ ListFrame(c)

\* the unlocked test `if self.list_curr:` / `if self.list_volt:` of the other list
ListPointsCheck(c, pc, other, space) ==
    /\ conn[c].pc = pc
    /\ IF other # <<>>
       THEN conn' = [conn EXCEPT ![c].pc = "push_error", ![c].ret = "next",
                                 ![c].err = Err(E_CONFLICT, "Settings conflict")]
       ELSE Goto(c, space)
    /\ UNCHANGED listCfgVars
    /\ ListFrame(c)

\* with self._lock: space = MAX - len(list); the values are parsed, at most
\* space of them
ListSpace(c, pc, list, max, extend) ==
    /\ conn[c].pc = pc
    /\ LET space == max - Len(list)
       IN  IF space <= 0 THEN Return(c)
           ELSE conn' = [conn EXCEPT ![c].pc = extend,
                                     ![c].vals = Take(conn[c].cur.xs, space)]
    /\ UNCHANGED listCfgVars
    /\ ListFrame(c)

\* LIST:VOLT v1,v2,...
ListVoltCheck(c) == ListPointsCheck(c, "lv_check", list_curr, "lv_space")

ListVoltSpace(c) == ListSpace(c, "lv_space", list_volt, MAX_LIST_POINTS, "lv_extend")

ListVoltExtend(c) ==
    /\ conn[c].pc = "lv_extend"
    /\ list_volt' = list_volt \o conn[c].vals
    /\ Return(c)
    /\ UNCHANGED <<list_curr, list_dwel, list_count, list_count_skip, list_dir,
                   list_gen, list_seq>>
    /\ ListFrame(c)

\* LIST:CURR v1,v2,...
ListCurrCheck(c) == ListPointsCheck(c, "lc_check", list_volt, "lc_space")

ListCurrSpace(c) == ListSpace(c, "lc_space", list_curr, MAX_LIST_POINTS, "lc_extend")

ListCurrExtend(c) ==
    /\ conn[c].pc = "lc_extend"
    /\ list_curr' = list_curr \o conn[c].vals
    /\ Return(c)
    /\ UNCHANGED <<list_volt, list_dwel, list_count, list_count_skip, list_dir,
                   list_gen, list_seq>>
    /\ ListFrame(c)

\* float("nan"), which _parse_float_list returns for the token nan; the number
\* that stands for it (-10.0 s) is carried by no line of the model
NaN == 0 - LIST_DWELL_MAX

\* a < b on Python floats: false when an operand is NaN
PyLt(a, b) == a # NaN /\ b # NaN /\ a < b

\* LIST_DWELL_MIN if v < LIST_DWELL_MIN else LIST_DWELL_MAX if v > LIST_DWELL_MAX else v
ClampDwell(v) ==
    IF PyLt(v, LIST_DWELL_MIN) THEN LIST_DWELL_MIN
    ELSE IF PyLt(LIST_DWELL_MAX, v) THEN LIST_DWELL_MAX ELSE v

\* LIST:DWEL d1,d2,...: space, parse, range test, clamp
ListDwelSpace(c) ==
    /\ conn[c].pc = "ld_space"
    /\ LET space == MAX_LIST_POINTS - Len(list_dwel)
           vals == Take(conn[c].cur.xs, space)
           out_of_range == \E i \in 1..Len(vals) :
                              PyLt(vals[i], LIST_DWELL_MIN) \/ PyLt(LIST_DWELL_MAX, vals[i])
           clamped == [i \in 1..Len(vals) |-> ClampDwell(vals[i])]
       IN  IF space <= 0 THEN Return(c)
           ELSE IF out_of_range
           THEN conn' = [conn EXCEPT ![c].pc = "push_error", ![c].ret = "ld_extend",
                                     ![c].vals = clamped,
                                     ![c].err = Err(E_RANGE, "Data out of range; dwell")]
           ELSE conn' = [conn EXCEPT ![c].pc = "ld_extend", ![c].vals = clamped]
    /\ UNCHANGED listCfgVars
    /\ ListFrame(c)

ListDwelExtend(c) ==
    /\ conn[c].pc = "ld_extend"
    /\ list_dwel' = list_dwel \o conn[c].vals
    /\ Return(c)
    /\ UNCHANGED <<list_volt, list_curr, list_count, list_count_skip, list_dir,
                   list_gen, list_seq>>
    /\ ListFrame(c)

\* LIST:COUN n
ListCoun(c) ==
    /\ conn[c].pc = "list_coun"
    /\ list_count' = conn[c].cur.n
    /\ Return(c)
    /\ UNCHANGED <<list_volt, list_curr, list_dwel, list_count_skip, list_dir,
                   list_gen, list_seq>>
    /\ ListFrame(c)

\* LIST:COUN:SKIP n
ListSkip(c) ==
    /\ conn[c].pc = "list_skip"
    /\ list_count_skip' = conn[c].cur.n
    /\ Return(c)
    /\ UNCHANGED <<list_volt, list_curr, list_dwel, list_count, list_dir,
                   list_gen, list_seq>>
    /\ ListFrame(c)

\* LIST:DIR UP / LIST:DIR DOWN
ListDir(c) ==
    /\ conn[c].pc = "list_dir"
    /\ list_dir' = IF conn[c].cur.op = "LIST:DIR UP" THEN "UP" ELSE "DOWN"
    /\ Return(c)
    /\ UNCHANGED <<list_volt, list_curr, list_dwel, list_count, list_count_skip,
                   list_gen, list_seq>>
    /\ ListFrame(c)

\* LIST:GEN DSEQ / LIST:GEN SEQ
ListGen(c) ==
    /\ conn[c].pc = "list_gen"
    /\ list_gen' = IF conn[c].cur.op = "LIST:GEN DSEQ" THEN "DSEQ" ELSE "SEQ"
    /\ Return(c)
    /\ UNCHANGED <<list_volt, list_curr, list_dwel, list_count, list_count_skip,
                   list_dir, list_seq>>
    /\ ListFrame(c)

\* LIST:SEQ i1,i2,...
ListSeqSpace(c) == ListSpace(c, "ls_space", list_seq, MAX_SEQ_POINTS, "ls_extend")

ListSeqExtend(c) ==
    /\ conn[c].pc = "ls_extend"
    /\ list_seq' = list_seq \o conn[c].vals
    /\ Return(c)
    /\ UNCHANGED <<list_volt, list_curr, list_dwel, list_count, list_count_skip,
                   list_dir, list_gen>>
    /\ ListFrame(c)

(***************************************************************************)
(* Connections come and go                                                 *)
(***************************************************************************)
\* _accept_loop: a client connects to one of the two servers
Accept(c, s) ==
    /\ conn[c].st = "closed"
    /\ conn' = [conn EXCEPT ![c] = OpenConn(s)]
    /\ UNCHANGED <<deviceVars, list_stop_event, runner, list_owner_conn, rx_lines>>
    /\ History(c)

\* _client_handler's finally: under _state_lock the owner is compared with
\* this connection; the owner of the LIST run stops the list on its way out
ClientFinally(c) ==
    /\ IF list_owner_conn[conn[c].srv] = c
       THEN /\ list_owner_conn' = [list_owner_conn EXCEPT ![conn[c].srv] = None]
            /\ conn' = [conn EXCEPT ![c].pc = "stop_lock", ![c].ret = "closed"]
       ELSE /\ list_owner_conn' = list_owner_conn
            /\ conn' = [conn EXCEPT ![c] = IdleConn]
    /\ UNCHANGED <<deviceVars, list_stop_event, runner, rx_lines>>
    /\ History(c)

\* recv returns b"": the client has closed the connection
Disconnect(c) ==
    /\ AtRecv(c)
    /\ ClientFinally(c)

\* an exception raised inside process() ends the handler the same way
HandlerRaise(c) ==
    /\ conn[c].pc = "raise"
    /\ ClientFinally(c)

(***************************************************************************)
(* _list_runner: the LIST executor thread                                  *)
(***************************************************************************)
\* order[skip:], a Python slice: a negative skip counts from the end
PyFrom(s, k) == IF k >= 0 THEN Drop(s, k) ELSE Drop(s, Len(s) + k)

\* exec_order = order if iteration == 0 else order[skip:]
ExecOrder(t) == IF t.iteration = 0 THEN t.order ELSE PyFrom(t.order, t.skip)

\* total_iters = count if count > 0 else 999999
TotalIters(t) == IF t.count > 0 THEN t.count ELSE FOREVER_ITERS

RunnerFrame(r) ==
    /\ UNCHANGED <<conn, list_owner_conn, rx_lines>>
    /\ RunnerHistory(r)

\* lines 170-203: the configuration is read under the lock, then the dwell
\* list and the execution order are resolved from the copy
Snapshot(r) ==
    /\ runner[r].pc = "snapshot"
    /\ LET res == Resolved(Config)
       IN  runner' = [runner EXCEPT ![r].points = res.points, ![r].dwells = res.dwells,
                         ![r].count = res.count, ![r].skip = res.skip,
                         ![r].order = res.order, ![r].err = res.err,
                         ![r].iteration = 0,
                         ![r].pc = IF res.err = NoError THEN "while" ELSE "push_error"]
    /\ UNCHANGED <<deviceVars, list_stop_event>>
    /\ RunnerFrame(r)

\* self._push_error(...); return: the finally block is next
RunnerPushError(r) ==
    /\ runner[r].pc = "push_error"
    /\ error_queue' = Append(error_queue, runner[r].err)
    /\ runner' = [runner EXCEPT ![r].pc = "fin_lock", ![r].err = NoError]
    /\ UNCHANGED <<outVars, modeVars, listCfgVars, progressVars, cmd_count,
                   query_count, list_stop_event>>
    /\ RunnerFrame(r)

\* while iteration < total_iters and not self._list_stop_event.is_set():
\* an empty exec_order ends the iteration at once
While(r) ==
    /\ runner[r].pc = "while"
    /\ LET t == runner[r]
       IN  IF t.iteration < TotalIters(t) /\ ~list_stop_event
           THEN IF ExecOrder(t) = <<>>
                THEN runner' = [runner EXCEPT ![r].iteration = t.iteration + 1]
                ELSE runner' = [runner EXCEPT ![r].k = 1, ![r].pc = "for"]
           ELSE runner' = [runner EXCEPT ![r].pc = "fin_lock"]
    /\ UNCHANGED <<deviceVars, list_stop_event>>
    /\ RunnerFrame(r)

\* for idx in exec_order: if self._list_stop_event.is_set(): return
For(r) ==
    /\ runner[r].pc = "for"
    /\ runner' = [runner EXCEPT ![r].pc = IF list_stop_event THEN "fin_lock" ELSE "step"]
    /\ UNCHANGED <<deviceVars, list_stop_event>>
    /\ RunnerFrame(r)

\* dwell = dwells[idx] if idx < len(dwells) else dwells[0], clamped;
\* 0 stands for the IndexError of an index below -len(dwells)
StepDwell(t, idx) ==
    IF idx < Len(t.dwells)
    THEN IF PyIndexOK(t.dwells, idx) THEN ClampDwell(PyIndex(t.dwells, idx)) ELSE 0
    ELSE ClampDwell(t.dwells[1])

\* with self._lock: the step is published unless list_running is off
Step(r) ==
    /\ runner[r].pc = "step"
    /\ LET t == runner[r]
           idx == ExecOrder(t)[t.k]
           dwell == StepDwell(t, idx)
       IN  IF ~list_running
           THEN /\ runner' = [runner EXCEPT ![r].pc = "fin_lock"]
                /\ UNCHANGED <<list_step_idx, list_iteration>>
           ELSE /\ list_step_idx' = idx
                /\ list_iteration' = t.iteration
                /\ runner' = IF dwell = 0
                             THEN [runner EXCEPT ![r].pc = "fin_lock",
                                                 ![r].steps = t.steps + 1]
                             ELSE [runner EXCEPT ![r].pc = "slice",
                                                 ![r].remaining = dwell,
                                                 ![r].steps = t.steps + 1]
    /\ UNCHANGED <<outVars, modeVars, listCfgVars, list_running, statVars,
                   list_stop_event>>
    /\ RunnerFrame(r)

\* while remaining > 0: if self._list_stop_event.is_set(): return
Slice(r) ==
    /\ runner[r].pc = "slice"
    /\ runner' = [runner EXCEPT ![r].pc = IF list_stop_event THEN "fin_lock"
                                          ELSE "slice_lock"]
    /\ UNCHANGED <<deviceVars, list_stop_event>>
    /\ RunnerFrame(r)

\* with self._lock: if not self.list_running: return; then one slice is
\* slept; when the dwell is over the for loop and the iteration advance
SliceLock(r) ==
    /\ runner[r].pc = "slice_lock"
    /\ LET t == runner[r]
           sl == IF t.remaining > SLICE THEN SLICE ELSE t.remaining
           left == t.remaining - sl
       IN  IF ~list_running
           THEN runner' = [runner EXCEPT ![r].pc = "fin_lock"]
           ELSE IF left > 0
           THEN runner' = [runner EXCEPT ![r].remaining = left, ![r].pc = "slice"]
           ELSE IF t.k < Len(ExecOrder(t))
           THEN runner' = [runner EXCEPT ![r].remaining = 0, ![r].k = t.k + 1,
                                         ![r].pc = "for"]
           ELSE runner' = [runner EXCEPT ![r].remaining = 0, ![r].k = 0,
                                         ![r].iteration = t.iteration + 1,
                                         ![r].pc = "while"]
    /\ UNCHANGED <<deviceVars, list_stop_event>>
    /\ RunnerFrame(r)

\* a variant of the cleanup that demotes the voltage mode only
FinallyLockVoltOnly(r) ==
    /\ runner[r].pc = "fin_lock"
    /\ list_running' = FALSE
    /\ volt_mode' = Demote(volt_mode)
    /\ runner' = [runner EXCEPT ![r].pc = "fin_set"]
    /\ UNCHANGED <<outVars, curr_mode, listCfgVars, list_step_idx, list_iteration,
                   statVars, list_stop_event>>
    /\ RunnerFrame(r)

\* finally: with self._lock: list_running = False, LIST modes back to FIX
FinallyLock(r) ==
    /\ runner[r].pc = "fin_lock"
    /\ list_running' = FALSE
    /\ volt_mode' = Demote(volt_mode)
    /\ curr_mode' = Demote(curr_mode)
    /\ runner' = [runner EXCEPT ![r].pc = "fin_set"]
    /\ UNCHANGED <<outVars, listCfgVars, list_step_idx, list_iteration, statVars,
                   list_stop_event>>
    /\ RunnerFrame(r)

\* finally: self._list_stop_event.set(); the thread exits
FinallySet(r) ==
    /\ runner[r].pc = "fin_set"
    /\ list_stop_event' = TRUE
    /\ runner' = [runner EXCEPT ![r] = IdleRunner]
    /\ UNCHANGED deviceVars
    /\ RunnerFrame(r)

RunnerStep(r) ==
    \/ Snapshot(r)
    \/ RunnerPushError(r)
    \/ While(r)
    \/ For(r)
    \/ Step(r)
    \/ Slice(r)
    \/ SliceLock(r)
    \/ FinallyLock(r)
    \/ FinallySet(r)

(***************************************************************************)
(* Specification SpecOutput: one client on the raw-socket server sends     *)
(* setpoint, output, measurement and reset commands                        *)
(***************************************************************************)
OutputLines ==
    {<<FN("VOLT", 5000)>>, <<FN("VOLT", 12500)>>, <<FN("CURR", 1000)>>,
     <<F("OUTP ON")>>, <<F("OUTP OFF")>>, <<F("MEAS:VOLT?")>>, <<F("*RST")>>}

\* one client is connected to the raw-socket server
OneClient == [c \in Conns |-> IF c = 1 THEN OpenConn("socket") ELSE IdleConn]

\* a client is connected on every connection the model has
AllClients == [c \in Conns |-> OpenConn("socket")]

InitOutput ==
    /\ InitProgram
    /\ InitHistory
    /\ conn = OneClient

NextOutput ==
    \E c \in Conns :
        \/ RecvLine(c, OutputLines)
        \/ Begin(c)
        \/ Reset(c)
        \/ OutpOn(c)
        \/ OutpOff(c)
        \/ VoltSet(c)
        \/ CurrSet(c)
        \/ MeasVolt(c)
        \/ Q(c)

SpecOutput == InitOutput /\ [][NextOutput]_vars

(***************************************************************************)
(* Specification SpecRun: a two-point voltage list with one dwell of one   *)
(* slice is loaded (LIST:VOLT 1.0,2.0 and LIST:DWEL 0.05 were sent); one   *)
(* client starts, stops and resets while executor threads run              *)
(***************************************************************************)
RunLines ==
    {<<F("VOLT:MODE LIST")>>, <<F("CURR:MODE LIST")>>, <<F("ABOR")>>,
     <<F("VOLT:MODE FIX")>>, <<F("CURR:MODE FIX")>>, <<F("*RST")>>}

InitLoaded ==
    /\ output_on = FALSE
    /\ func_mode = "VOLT"
    /\ volt_setpoint = 0
    /\ curr_setpoint = 0
    /\ volt_saved = 0
    /\ curr_saved = 0
    /\ volt_mode = "FIX"
    /\ curr_mode = "FIX"
    /\ list_volt = <<1000, 2000>>
    /\ list_curr = <<>>
    /\ list_dwel = <<SLICE>>
    /\ list_count = 1
    /\ list_count_skip = 0
    /\ list_dir = "UP"
    /\ list_gen = "DSEQ"
    /\ list_seq = <<>>
    /\ list_running = FALSE
    /\ list_step_idx = 0
    /\ list_iteration = 0
    /\ error_queue = <<>>
    /\ cmd_count = 2
    /\ query_count = 0
    /\ list_stop_event = FALSE
    /\ runner = [r \in Runners |-> IdleRunner]
    /\ list_owner_conn = [s \in Servers |-> None]
    /\ rx_lines = 0
    /\ InitHistory

InitRun ==
    /\ InitLoaded
    /\ conn = OneClient

NextRun ==
    \/ \E c \in Conns :
        \/ RecvLine(c, RunLines)
        \/ Begin(c)
        \/ Reset(c)
        \/ PushError(c)
        \/ StopListLock(c)
        \/ StopListSet(c)
        \/ VoltModeFix(c)
        \/ CurrModeFix(c)
        \/ VoltModeList(c)
        \/ CurrModeList(c)
        \/ StartListLock(c)
        \/ StartListThread(c)
    \/ \E r \in Runners : RunnerStep(r)

SpecRun == InitRun /\ [][NextRun]_vars

(***************************************************************************)
(* Specification SpecOwner: the list of SpecRun is loaded and no client    *)
(* is connected; clients connect to either server, start the list with a   *)
(* line of its own or as the last part of a compound line, and disconnect  *)
(***************************************************************************)
OwnerLines ==
    {<<F("VOLT:MODE LIST")>>, <<FN("LIST:COUN", 2), F("VOLT:MODE LIST")>>}

\* lines received in a behaviour of SpecOwner
MaxOwnerLines == 2

NoClient == [c \in Conns |-> IdleConn]

InitOwner ==
    /\ InitLoaded
    /\ conn = NoClient

NextOwner ==
    \/ \E c \in Conns :
        \/ \E s \in Servers : Accept(c, s)
        \/ Disconnect(c)
        \/ rx_lines < MaxOwnerLines /\ RecvLine(c, OwnerLines)
        \/ Begin(c)
        \/ ListCoun(c)
        \/ PushError(c)
        \/ VoltModeList(c)
        \/ StartListLock(c)
        \/ StartListThread(c)
        \/ StopListLock(c)
        \/ StopListSet(c)
    \* the list stays loaded, so no snapshot fails and _push_error is not called
    \/ \E r \in Runners :
        \/ Snapshot(r)
        \/ While(r)
        \/ For(r)
        \/ Step(r)
        \/ Slice(r)
        \/ SliceLock(r)
        \/ FinallyLock(r)
        \/ FinallySet(r)

SpecOwner == InitOwner /\ [][NextOwner]_vars

(***************************************************************************)
(* Specification SpecEdit: the list of SpecRun is loaded; one client       *)
(* edits the LIST configuration and starts runs                            *)
(***************************************************************************)
EditLines ==
    {<<F("VOLT:MODE LIST")>>, <<F("LIST:CLE")>>, <<FL("LIST:VOLT", <<3000>>)>>,
     <<FL("LIST:CURR", <<100>>)>>, <<FL("LIST:DWEL", <<SLICE, 2 * SLICE>>)>>,
     <<FN("LIST:COUN", 2)>>, <<FN("LIST:COUN:SKIP", 1)>>, <<F("LIST:DIR DOWN")>>,
     <<F("LIST:GEN SEQ")>>, <<FL("LIST:SEQ", <<1, 0>>)>>}

InitEdit ==
    /\ InitLoaded
    /\ conn = OneClient

NextEdit ==
    \/ \E c \in Conns :
        \/ RecvLine(c, EditLines)
        \/ Begin(c)
        \/ PushError(c)
        \/ VoltModeList(c)
        \/ StartListLock(c)
        \/ StartListThread(c)
        \/ ListCle(c)
        \/ ListVoltCheck(c)
        \/ ListVoltSpace(c)
        \/ ListVoltExtend(c)
        \/ ListCurrCheck(c)
        \/ ListCurrSpace(c)
        \/ ListCurrExtend(c)
        \/ ListDwelSpace(c)
        \/ ListDwelExtend(c)
        \/ ListCoun(c)
        \/ ListSkip(c)
        \/ ListDir(c)
        \/ ListGen(c)
        \/ ListSeqSpace(c)
        \/ ListSeqExtend(c)
    \/ \E r \in Runners : RunnerStep(r)

SpecEdit == InitEdit /\ [][NextEdit]_vars

(***************************************************************************)
(* Specification SpecRace: from the power-on state, a client on every      *)
(* connection sends LIST:VOLT, LIST:CURR and LIST:CLE                      *)
(***************************************************************************)
RaceLines ==
    {<<FL("LIST:VOLT", <<1000>>)>>, <<FL("LIST:CURR", <<100>>)>>, <<F("LIST:CLE")>>}

InitRace ==
    /\ InitProgram
    /\ InitHistory
    /\ conn = AllClients

NextRace ==
    \E c \in Conns :
        \/ RecvLine(c, RaceLines)
        \/ Begin(c)
        \/ PushError(c)
        \/ ListCle(c)
        \/ ListVoltCheck(c)
        \/ ListVoltSpace(c)
        \/ ListVoltExtend(c)
        \/ ListCurrCheck(c)
        \/ ListCurrSpace(c)
        \/ ListCurrExtend(c)

SpecRace == InitRace /\ [][NextRace]_vars

(***************************************************************************)
(* Specification SpecCount: a LIST configuration has been entered (one to  *)
(* four voltage points, one dwell, a count, a skip, a direction, DSEQ or   *)
(* SEQ with a sequence); one client starts runs and lets them finish       *)
(***************************************************************************)
CountPoints == {<<1000>>, <<1000, 2000>>, <<1000, 2000, 3000, 4000>>}
CountCounts == {1, 2}
CountSkips == {0, 1}
CountSeqs == {<<>>, <<1, 0>>, <<0, -5>>}

\* [d] * n
Copies(d, n) == [i \in 1..n |-> d]

CountLines == {<<F("VOLT:MODE LIST")>>}

\* the commands that entered the configuration: LIST:VOLT and LIST:DWEL, and
\* one for every field away from its default
Entered(count, skip, dir, gen, seq) ==
    2 + (IF count # 1 THEN 1 ELSE 0) + (IF skip # 0 THEN 1 ELSE 0)
      + (IF dir # "UP" THEN 1 ELSE 0) + (IF gen # "DSEQ" THEN 1 ELSE 0)
      + (IF seq # <<>> THEN 1 ELSE 0)

InitCount ==
    /\ output_on = FALSE
    /\ func_mode = "VOLT"
    /\ volt_setpoint = 0
    /\ curr_setpoint = 0
    /\ volt_saved = 0
    /\ curr_saved = 0
    /\ volt_mode = "FIX"
    /\ curr_mode = "FIX"
    /\ list_volt \in CountPoints
    /\ list_curr = <<>>
    /\ list_dwel \in {<<SLICE>>, Copies(SLICE, Len(list_volt))}
    /\ list_count \in CountCounts
    /\ list_count_skip \in CountSkips
    /\ list_dir \in {"UP", "DOWN"}
    /\ list_gen \in {"DSEQ", "SEQ"}
    /\ list_seq \in CountSeqs
    /\ list_running = FALSE
    /\ list_step_idx = 0
    /\ list_iteration = 0
    /\ error_queue = <<>>
    /\ cmd_count = Entered(list_count, list_count_skip, list_dir, list_gen, list_seq)
    /\ query_count = 0
    /\ list_stop_event = FALSE
    /\ runner = [r \in Runners |-> IdleRunner]
    /\ list_owner_conn = [s \in Servers |-> None]
    /\ rx_lines = 0
    /\ InitHistory
    /\ conn = OneClient

NextCount ==
    \/ \E c \in Conns :
        \/ RecvLine(c, CountLines)
        \/ Begin(c)
        \/ PushError(c)
        \/ VoltModeList(c)
        \/ StartListLock(c)
        \/ StartListThread(c)
    \/ \E r \in Runners : RunnerStep(r)

SpecCount == InitCount /\ [][NextCount]_vars

(***************************************************************************)
(* Specification SpecForever: the list of SpecRun was started with         *)
(* LIST:COUN 0 and its executor has been iterating for a long time (with   *)
(* the shortest dwell an iteration of one point takes 0.5 ms); one client  *)
(* may stop the run or reset the device                                    *)
(***************************************************************************)
ForeverLines == {<<F("ABOR")>>, <<F("VOLT:MODE FIX")>>, <<F("*RST")>>}

\* the executor of the run at the top of its while loop, it iterations done
LongRunner(it) ==
    [IdleRunner EXCEPT !.pc = "while", !.points = <<1000, 2000>>,
                       !.dwells = <<SLICE, SLICE>>, !.order = <<0, 1>>,
                       !.iteration = it, !.starter = 1, !.via = "VOLT:MODE LIST",
                       !.plan0 = [err |-> 0, order |-> <<0, 1>>, count |-> 0, skip |-> 0],
                       !.steps = 2 * it]

InitForever ==
    /\ output_on = FALSE
    /\ func_mode = "VOLT"
    /\ volt_setpoint = 0
    /\ curr_setpoint = 0
    /\ volt_saved = 0
    /\ curr_saved = 0
    /\ volt_mode = "LIST"
    /\ curr_mode = "FIX"
    /\ list_volt = <<1000, 2000>>
    /\ list_curr = <<>>
    /\ list_dwel = <<SLICE>>
    /\ list_count = 0
    /\ list_count_skip = 0
    /\ list_dir = "UP"
    /\ list_gen = "DSEQ"
    /\ list_seq = <<>>
    /\ list_running = TRUE
    /\ list_step_idx = 1
    /\ \E it \in {FOREVER_ITERS - 2, FOREVER_ITERS - 1} :
        /\ list_iteration = it - 1
        /\ runner = [r \in Runners |-> IF r = 1 THEN LongRunner(it) ELSE IdleRunner]
    /\ error_queue = <<>>
    /\ cmd_count = 4
    /\ query_count = 0
    /\ list_stop_event = FALSE
    /\ list_owner_conn = [s \in Servers |-> IF s = "socket" THEN 1 ELSE None]
    /\ rx_lines = 0
    /\ InitHistory
    /\ conn = OneClient

NextForever ==
    \/ \E c \in Conns :
        \/ RecvLine(c, ForeverLines)
        \/ Begin(c)
        \/ Reset(c)
        \/ StopListLock(c)
        \/ StopListSet(c)
        \/ VoltModeFix(c)
    \/ \E r \in Runners :
        \/ While(r)
        \/ For(r)
        \/ Step(r)
        \/ Slice(r)
        \/ SliceLock(r)
        \/ FinallyLock(r)
        \/ FinallySet(r)

SpecForever == InitForever /\ [][NextForever]_vars

(***************************************************************************)
(* The device mutex: self._lock = threading.Lock(), not reentrant.  Each   *)
(* thread runs a sequence of with self._lock blocks and lock-free steps;   *)
(* inner lists the blocks a block's body enters while it holds the lock    *)
(***************************************************************************)
WithBlock(do) == [lock |-> TRUE, do |-> do, inner |-> <<>>]
LockFreeStep(do) == [lock |-> FALSE, do |-> do, inner |-> <<>>]

\* a variant of _dispatch that pushes the error of an unrecognised command
\* inside its counting block
DispatchBlocksNested(cmd) ==
    CASE cmd = "MEAS:VOLT?" ->
            <<WithBlock("cmd_count"), WithBlock("measure_volt"), WithBlock("query_count")>>
      [] cmd = "SYST:ERR?" ->
            <<WithBlock("cmd_count"), WithBlock("pop_error"), WithBlock("query_count")>>
      [] cmd = "ABOR" ->
            <<WithBlock("cmd_count"), WithBlock("stop_list"), LockFreeStep("stop_event")>>
      [] OTHER -> <<[lock |-> TRUE, do |-> "cmd_count", inner |-> <<"push_error">>]>>

\* _dispatch(cmd): the counting block, then the handler's blocks:
\* measure_volt() and _q, _pop_error() and _q, _stop_list(), or _push_error
\* for an unrecognised command
DispatchBlocks(cmd) ==
    CASE cmd = "MEAS:VOLT?" ->
            <<WithBlock("cmd_count"), WithBlock("measure_volt"), WithBlock("query_count")>>
      [] cmd = "SYST:ERR?" ->
            <<WithBlock("cmd_count"), WithBlock("pop_error"), WithBlock("query_count")>>
      [] cmd = "ABOR" ->
            <<WithBlock("cmd_count"), WithBlock("stop_list"), LockFreeStep("stop_event")>>
      [] OTHER -> <<WithBlock("cmd_count"), WithBlock("push_error")>>

\* the cleanup of _list_runner: the finally block and the event
FinallyBlocks == <<WithBlock("finally"), LockFreeStep("stop_event")>>

\* _list_runner for one step of n dwell slices: the step block, then for each
\* slice the list_running test under the lock and the sleep outside it, and
\* the cleanup
ListRunnerBlocks(n) ==
    <<WithBlock("step")>>
    \o [i \in 1..(2 * n) |-> IF i % 2 = 1 THEN WithBlock("check") ELSE LockFreeStep("sleep")]
    \o FinallyBlocks

\* no thread holds the device lock
LockFree ==
    /\ \A c \in Conns : ~conn[c].holds
    /\ \A r \in Runners : ~runner[r].holds

MutexFrame == UNCHANGED <<list_owner_conn, histVars, ctl>>

\* a line with one command arrives and process() hands it to _dispatch
RecvCmd(c, cmd) ==
    /\ conn[c].blocks = <<>>
    /\ rx_lines < MaxLines
    /\ conn' = [conn EXCEPT ![c].blocks = DispatchBlocks(cmd)]
    /\ rx_lines' = rx_lines + 1
    /\ UNCHANGED <<deviceVars, list_stop_event, runner>>
    /\ MutexFrame

\* with self._lock: the thread waits until the lock is free and takes it
Acquire(c) ==
    /\ conn[c].blocks # <<>>
    /\ Head(conn[c].blocks).lock
    /\ ~conn[c].holds
    /\ LockFree
    /\ conn' = [conn EXCEPT ![c].holds = TRUE]
    /\ UNCHANGED <<deviceVars, list_stop_event, runner, rx_lines>>
    /\ MutexFrame

\* the body of a with self._lock block of a connection thread and the
\* release at its end; a body that enters another with self._lock block
\* waits there for ever
WithLock(c) ==
    /\ conn[c].holds
    /\ Head(conn[c].blocks).inner = <<>>
    /\ LET do == Head(conn[c].blocks).do
       IN  /\ cmd_count' = IF do = "cmd_count" THEN cmd_count + 1 ELSE cmd_count
           /\ query_count' = IF do = "query_count" THEN query_count + 1 ELSE query_count
           /\ error_queue' =
                 CASE do = "push_error" ->
                        Append(error_queue, Err(E_COMMAND, "Command error; unrecognised"))
                   [] do = "pop_error" /\ error_queue # <<>> -> Tail(error_queue)
                   [] OTHER -> error_queue
           /\ list_running' = IF do = "stop_list" THEN FALSE ELSE list_running
           /\ volt_mode' = IF do = "stop_list" THEN Demote(volt_mode) ELSE volt_mode
           /\ curr_mode' = IF do = "stop_list" THEN Demote(curr_mode) ELSE curr_mode
    /\ conn' = [conn EXCEPT ![c].holds = FALSE, ![c].blocks = Tail(@)]
    /\ UNCHANGED <<outVars, listCfgVars, list_step_idx, list_iteration,
                   list_stop_event, runner, rx_lines>>
    /\ MutexFrame

\* _stop_list: self._list_stop_event.set(), outside the lock
Unlocked(c) ==
    /\ conn[c].blocks # <<>>
    /\ ~Head(conn[c].blocks).lock
    /\ list_stop_event' = TRUE
    /\ conn' = [conn EXCEPT ![c].blocks = Tail(@)]
    /\ UNCHANGED <<deviceVars, runner, rx_lines>>
    /\ MutexFrame

\* with self._lock in _list_runner
RunnerAcquire(r) ==
    /\ runner[r].blocks # <<>>
    /\ Head(runner[r].blocks).lock
    /\ ~runner[r].holds
    /\ LockFree
    /\ runner' = [runner EXCEPT ![r].holds = TRUE]
    /\ UNCHANGED <<deviceVars, list_stop_event, conn, rx_lines>>
    /\ MutexFrame

\* the body of a with self._lock block of _list_runner and the release at
\* its end: if not self.list_running: return in the step and slice blocks,
\* the position in the step block, the cleanup in the finally block
RunnerWithLock(r) ==
    /\ runner[r].holds
    /\ Head(runner[r].blocks).inner = <<>>
    /\ LET do == Head(runner[r].blocks).do
           return == do \in {"step", "check"} /\ ~list_running
       IN  /\ list_running' = IF do = "finally" THEN FALSE ELSE list_running
           /\ volt_mode' = IF do = "finally" THEN Demote(volt_mode) ELSE volt_mode
           /\ curr_mode' = IF do = "finally" THEN Demote(curr_mode) ELSE curr_mode
           /\ list_step_idx' = IF do = "step" /\ list_running THEN 0 ELSE list_step_idx
           /\ list_iteration' = IF do = "step" /\ list_running THEN runner[r].iteration
                                ELSE list_iteration
           /\ runner' = [runner EXCEPT ![r].holds = FALSE,
                                       ![r].blocks = IF return THEN FinallyBlocks ELSE Tail(@)]
    /\ UNCHANGED <<outVars, listCfgVars, statVars, list_stop_event, conn, rx_lines>>
    /\ MutexFrame

\* time.sleep(sl) of a dwell slice, and self._list_stop_event.set() at the
\* end of the thread
RunnerUnlocked(r) ==
    /\ runner[r].blocks # <<>>
    /\ ~Head(runner[r].blocks).lock
    /\ LET do == Head(runner[r].blocks).do
       IN  /\ list_stop_event' = IF do = "stop_event" THEN TRUE ELSE list_stop_event
           /\ runner' = [runner EXCEPT ![r] = IF do = "stop_event" THEN IdleRunner
                                              ELSE [@ EXCEPT !.blocks = Tail(@)]]
    /\ UNCHANGED <<deviceVars, conn, rx_lines>>
    /\ MutexFrame

(***************************************************************************)
(* Specification SpecMutex: while the executor of a run steps through its  *)
(* dwell slices, a client on every connection sends measurement and error  *)
(* queries, ABOR and unrecognised commands; every thread that can take a   *)
(* step takes it in the end                                                *)
(***************************************************************************)
MutexCmds == {"MEAS:VOLT?", "SYST:ERR?", "ABOR", "FOO:BAR"}

InitMutex ==
    /\ output_on = TRUE
    /\ func_mode = "VOLT"
    /\ volt_setpoint = 0
    /\ curr_setpoint = 0
    /\ volt_saved = 0
    /\ curr_saved = 0
    /\ volt_mode = "LIST"
    /\ curr_mode = "FIX"
    /\ list_volt = <<1000, 2000>>
    /\ list_curr = <<>>
    /\ list_dwel = <<2 * SLICE>>
    /\ list_count = 1
    /\ list_count_skip = 0
    /\ list_dir = "UP"
    /\ list_gen = "DSEQ"
    /\ list_seq = <<>>
    /\ list_running = TRUE
    /\ list_step_idx = 0
    /\ list_iteration = 0
    /\ error_queue = <<>>
    /\ cmd_count = 4
    /\ query_count = 0
    /\ list_stop_event = FALSE
    /\ list_owner_conn = [s \in Servers |-> IF s = "socket" THEN 1 ELSE None]
    /\ rx_lines = 0
    /\ InitHistory
    /\ runner = [r \in Runners |->
                   IF r = 1 THEN [LongRunner(0) EXCEPT !.blocks = ListRunnerBlocks(2)]
                   ELSE IdleRunner]
    /\ conn = AllClients

NextMutex ==
    \/ \E c \in Conns :
          \/ \E cmd \in MutexCmds : RecvCmd(c, cmd)
          \/ Acquire(c)
          \/ WithLock(c)
          \/ Unlocked(c)
    \/ \E r \in Runners :
          \/ RunnerAcquire(r)
          \/ RunnerWithLock(r)
          \/ RunnerUnlocked(r)

FairMutex ==
    /\ \A c \in Conns : WF_vars(Acquire(c)) /\ WF_vars(WithLock(c)) /\ WF_vars(Unlocked(c))
    /\ \A r \in Runners :
          WF_vars(RunnerAcquire(r)) /\ WF_vars(RunnerWithLock(r)) /\ WF_vars(RunnerUnlocked(r))

SpecMutex == InitMutex /\ [][NextMutex]_vars /\ FairMutex

(***************************************************************************)
(* Specification SpecCap: the voltage list, the dwell list and the         *)
(* sequence each lack one entry to their limit; a client on every          *)
(* connection sends LIST:VOLT, LIST:DWEL and LIST:SEQ with two values, the  *)
(* dwells in range, out of range or not a number                            *)
(***************************************************************************)
CapLines ==
    {<<FL("LIST:VOLT", <<1000, 2000>>)>>, <<FL("LIST:DWEL", <<1, 2 * LIST_DWELL_MAX>>)>>,
     <<FL("LIST:DWEL", <<SLICE, 2 * SLICE>>)>>, <<FL("LIST:DWEL", <<NaN>>)>>,
     <<FL("LIST:SEQ", <<0, 1>>)>>}

InitCap ==
    /\ output_on = FALSE
    /\ func_mode = "VOLT"
    /\ volt_setpoint = 0
    /\ curr_setpoint = 0
    /\ volt_saved = 0
    /\ curr_saved = 0
    /\ volt_mode = "FIX"
    /\ curr_mode = "FIX"
    /\ list_volt = Copies(1000, MAX_LIST_POINTS - 1)
    /\ list_curr = <<>>
    /\ list_dwel = Copies(SLICE, MAX_LIST_POINTS - 1)
    /\ list_count = 1
    /\ list_count_skip = 0
    /\ list_dir = "UP"
    /\ list_gen = "DSEQ"
    /\ list_seq = Copies(0, MAX_SEQ_POINTS - 1)
    /\ list_running = FALSE
    /\ list_step_idx = 0
    /\ list_iteration = 0
    /\ error_queue = <<>>
    /\ cmd_count = 3
    /\ query_count = 0
    /\ list_stop_event = FALSE
    /\ runner = [r \in Runners |-> IdleRunner]
    /\ list_owner_conn = [s \in Servers |-> None]
    /\ rx_lines = 0
    /\ InitHistory
    /\ conn = AllClients

NextCap ==
    \E c \in Conns :
        \/ RecvLine(c, CapLines)
        \/ Begin(c)
        \/ PushError(c)
        \/ ListVoltCheck(c)
        \/ ListVoltSpace(c)
        \/ ListVoltExtend(c)
        \/ ListDwelSpace(c)
        \/ ListDwelExtend(c)
        \/ ListSeqSpace(c)
        \/ ListSeqExtend(c)

SpecCap == InitCap /\ [][NextCap]_vars

(***************************************************************************)
(* Specification SpecMode: the list of SpecRun is loaded; one client       *)
(* selects the function mode, starts the list in either mode and aborts    *)
(***************************************************************************)
ModeLines ==
    {<<F("VOLT:MODE LIST")>>, <<F("CURR:MODE LIST")>>, <<F("FUNC:MODE VOLT")>>,
     <<F("FUNC:MODE CURR")>>, <<F("ABOR")>>}

InitMode ==
    /\ InitLoaded
    /\ conn = OneClient

NextMode ==
    \/ \E c \in Conns :
        \/ RecvLine(c, ModeLines)
        \/ Begin(c)
        \/ PushError(c)
        \/ FuncMode(c)
        \/ StopListLock(c)
        \/ StopListSet(c)
        \/ VoltModeList(c)
        \/ CurrModeList(c)
        \/ StartListLock(c)
        \/ StartListThread(c)
    \/ \E r \in Runners : RunnerStep(r)

SpecMode == InitMode /\ [][NextMode]_vars

(***************************************************************************)
(* Specification SpecTally: from the power-on state, a client on every     *)
(* connection sends queries and *RST                                       *)
(***************************************************************************)
TallyLines == {<<F("VOLT?")>>, <<F("*RST")>>}

InitTally ==
    /\ InitProgram
    /\ InitHistory
    /\ conn = AllClients

NextTally ==
    \E c \in Conns :
        \/ RecvLine(c, TallyLines)
        \/ Begin(c)
        \/ Reset(c)
        \/ VoltQuery(c)
        \/ Q(c)

SpecTally == InitTally /\ [][NextTally]_vars

(***************************************************************************)
(* Specification SpecEcho: from the power-on state, one client on the      *)
(* Telnet (echo) server and one on the raw-socket server send setpoint     *)
(* commands and queries, alone or as a compound line                       *)
(***************************************************************************)
EchoLines ==
    {<<F("VOLT?")>>, <<FN("VOLT", 1000), F("VOLT?")>>, <<F("FOO:BAR")>>}

InitEcho ==
    /\ InitProgram
    /\ InitHistory
    /\ conn = [c \in Conns |-> OpenConn(IF c = 1 THEN "telnet" ELSE "socket")]

NextEcho ==
    \E c \in Conns :
        \/ RecvLine(c, EchoLines)
        \/ Begin(c)
        \/ PushError(c)
        \/ VoltSet(c)
        \/ VoltQuery(c)
        \/ Q(c)

SpecEcho == InitEcho /\ [][NextEcho]_vars

(***************************************************************************)
(* Specification SpecQuery: the list of SpecRun is loaded; one client      *)
(* sends setpoints, queries, an unrecognised command and list commands,    *)
(* with or without a run in progress                                       *)
(***************************************************************************)
QueryLines ==
    {<<F("FOO:BAR")>>, <<F("SYST:ERR?")>>, <<FN("VOLT", 12345678)>>, <<F("VOLT?")>>,
     <<FN("CURR", 1000)>>, <<F("CURR?")>>, <<F("LIST:CLE")>>,
     <<F("LIST:VOLT:POIN?")>>, <<F("LIST:CURR:POIN?")>>,
     <<FL("LIST:CURR", <<100>>)>>, <<F("OUTP ON")>>, <<F("VOLT:MODE LIST")>>}

InitQuery ==
    /\ InitLoaded
    /\ conn = OneClient

NextQuery ==
    \/ \E c \in Conns :
        \/ RecvLine(c, QueryLines)
        \/ Begin(c)
        \/ PushError(c)
        \/ PopError(c)
        \/ Q(c)
        \/ OutpOn(c)
        \/ VoltSet(c)
        \/ VoltQuery(c)
        \/ CurrSet(c)
        \/ CurrQuery(c)
        \/ ListCle(c)
        \/ ListVoltPoin(c)
        \/ ListCurrPoin(c)
        \/ ListCurrCheck(c)
        \/ ListCurrSpace(c)
        \/ ListCurrExtend(c)
        \/ VoltModeList(c)
        \/ StartListLock(c)
        \/ StartListThread(c)
    \/ \E r \in Runners : RunnerStep(r)

SpecQuery == InitQuery /\ [][NextQuery]_vars

(***************************************************************************)
(* KepcoController.upload_list_chunk (kepco_ui.py).  A point is m * 10^e   *)
(* in units of 0.00001; a token is the text _fmt makes of it, kept as sign, *)
(* digits m in units of 0.0001 and exponent e.  A point with e > 0 is a    *)
(* whole number of units of 10^e * 0.0001.                                  *)
(***************************************************************************)
P(m, e) == [m |-> m, e |-> e]

\* f"{v:.4f}": four decimals, round half to even
Fmt(p) ==
    LET a == Abs(p.m)
        q == a \div 10
        up == (a % 10 > 5) \/ (a % 10 = 5 /\ q % 2 = 1)
    IN  [neg |-> p.m < 0, m |-> IF up THEN q + 1 ELSE q, e |-> p.e]

RECURSIVE Digits(_)
Digits(n) == IF n < 10 THEN 1 ELSE 1 + Digits(n \div 10)

RECURSIVE Decimals(_, _)
\* the decimals left of the d-digit fraction f # 0 by rstrip('0')
Decimals(f, d) == IF f % 10 # 0 THEN d ELSE Decimals(f \div 10, d - 1)

\* len(_fmt(v)): sign, integer digits and, unless the fraction is zero, the
\* point and the decimals that rstrip('0').rstrip('.') leaves
TokLen(t) ==
    (IF t.neg THEN 1 ELSE 0)
    + (IF t.e = 0
       THEN Digits(t.m \div 10000)
            + (IF t.m % 10000 = 0 THEN 0 ELSE 1 + Decimals(t.m % 10000, 4))
       ELSE Digits(t.m) + t.e - 4)

RECURSIVE JoinLen(_)
\* len(",".join(toks))
JoinLen(toks) ==
    IF toks = <<>> THEN 0
    ELSE IF Len(toks) = 1 THEN TokLen(toks[1])
    ELSE TokLen(Head(toks)) + 1 + JoinLen(Tail(toks))

\* len(prefix + ",".join(toks))
CmdLen(toks) == PREFIX_LEN + JoinLen(toks)

RECURSIVE Batch(_, _, _)
\* the for loop over the points from pts[k] with buf, up to its next
\* send_cmd: buf is what that command carries, k the point whose token the
\* flush condition was met on (beyond the end: the loop is over)
Batch(pts, k, buf) ==
    IF k > Len(pts) THEN [k |-> k, buf |-> buf]
    ELSE LET trial == Append(buf, Fmt(pts[k]))
         IN  IF (CmdLen(trial) > CHUNK_CMD_LIMIT \/ Len(trial) > LIST_VALUES_PER_CMD)
                    /\ buf # <<>>
             THEN [k |-> k, buf |-> buf]
             ELSE Batch(pts, k + 1, trial)

\* a variant of setup_cmds that does not clear the lists
SetupCmdsNoClear(dwell) ==
    <<F("FUNC:MODE VOLT"), FN("VOLT:RANG", 1), F("*WAI"), F("*WAI"),
      FL("LIST:DWEL", <<dwell>>)>>

\* setup_cmds for mode VOLT
SetupCmds(dwell) ==
    <<F("FUNC:MODE VOLT"), FN("VOLT:RANG", 1), F("LIST:CLE"), F("*WAI"),
      FL("LIST:DWEL", <<dwell>>)>>

\* send_cmd / the sending half of send_query: the line is written to the
\* socket, or sendall raises and the controller disconnects
Send(s, line, ok) ==
    IF ok THEN [s EXCEPT !.connected = TRUE, !.tx = Append(@, line)]
    ELSE [s EXCEPT !.connected = FALSE]

\* return False, msg
Fail(s, msg) == [s EXCEPT !.pc = "done", !.result = [ok |-> FALSE, msg |-> msg]]

CtlFrame ==
    UNCHANGED <<deviceVars, list_stop_event, runner, list_owner_conn, conn,
                rx_lines, histVars>>

\* the socket takes a line while fewer than MaxInFlight are unread
CanSend == Len(ctl.tx) < MaxInFlight

\* upload_list_chunk(points, dwell): lines 387-392
UploadListChunk(points, dwell) ==
    /\ ctl.pc \in {"idle", "done"}
    /\ LET s == [IdleCtl EXCEPT !.connected = ctl.connected, !.tx = ctl.tx,
                                !.points = points, !.dwell = dwell,
                                !.calls = ctl.calls + 1]
       IN  ctl' = IF ~ctl.connected THEN Fail(s, "Not connected")
                  ELSE IF points = <<>> THEN Fail(s, "Empty point list")
                  ELSE IF Len(points) > UI_MAX_LIST_POINTS
                  THEN Fail(s, "Chunk exceeds points")
                  ELSE [s EXCEPT !.pc = "setup", !.i = 1]
    /\ CtlFrame

\* a variant of the setup loop that goes on to the next command when
\* send_cmd has failed
UploadSetupGoesOn(ok) ==
    /\ ctl.pc = "setup"
    /\ CanSend
    /\ LET cmd == SetupCmds(ctl.dwell)[ctl.i]
           s == [Send(ctl, <<cmd>>, ok) EXCEPT !.ops = Append(@, cmd.op)]
       IN  ctl' = IF ctl.i < Len(SetupCmds(ctl.dwell))
                  THEN [s EXCEPT !.i = ctl.i + 1]
                  ELSE [s EXCEPT !.pc = "values", !.k = 1, !.buf = <<>>, !.sent = 0]
    /\ CtlFrame

\* for cmd in setup_cmds: if self.send_cmd(cmd) is None:
\*     return False, f"Setup '{cmd}' failed: {self.last_error}"
UploadSetup(ok) ==
    /\ ctl.pc = "setup"
    /\ CanSend
    /\ LET cmd == SetupCmds(ctl.dwell)[ctl.i]
           s == [Send(ctl, <<cmd>>, ok) EXCEPT !.ops = Append(@, cmd.op)]
       IN  ctl' = IF ~ok THEN [Fail(s, "Setup failed") EXCEPT !.named = cmd.op]
                  ELSE IF ctl.i < Len(SetupCmds(ctl.dwell))
                  THEN [s EXCEPT !.i = ctl.i + 1]
                  ELSE [s EXCEPT !.pc = "values", !.k = 1, !.buf = <<>>, !.sent = 0]
    /\ CtlFrame

\* phase 2 up to and including one send_cmd(prefix + ",".join(buf)), with
\* the progress_cb call that follows it; a failure returns
\* f"List send failed at pt {sent}/{total}: {self.last_error}"
UploadValues(ok) ==
    /\ ctl.pc = "values"
    /\ CanSend
    /\ LET b == Batch(ctl.points, ctl.k, ctl.buf)
           s == [Send(ctl, <<FL("LIST:VOLT", b.buf)>>, ok) EXCEPT
                    !.ops = Append(@, "LIST:VOLT")]
           sent == ctl.sent + Len(b.buf)
           t == [s EXCEPT !.sent = sent,
                          !.log = Append(@, [xs |-> b.buf, len |-> CmdLen(b.buf)]),
                          !.progress = Append(@, sent)]
       IN  ctl' = IF ~ok THEN Fail(s, "List send failed")
                  ELSE IF b.k <= Len(ctl.points)
                  THEN [t EXCEPT !.buf = <<Fmt(ctl.points[b.k])>>, !.k = b.k + 1]
                  ELSE [t EXCEPT !.buf = <<>>, !.k = b.k, !.pc = "sync"]
    /\ CtlFrame

\* if not self.sync(): return False
UploadSync(ok) ==
    /\ ctl.pc = "sync"
    /\ CanSend
    /\ LET s == Send(ctl, <<F("*WAI")>>, ok)
       IN  ctl' = IF ok THEN [s EXCEPT !.pc = "poin"]
                  ELSE [Fail(s, "Post-upload *WAI failed") EXCEPT !.named = "*WAI"]
    /\ CtlFrame

\* send_query up to sendall, for LIST:VOLT:POIN? and for each SYST:ERR? of
\* drain_errors; a failed send makes send_query return None
UploadQuery(ok) ==
    /\ ctl.pc \in {"poin", "drain"}
    /\ CanSend
    /\ LET q == IF ctl.pc = "poin" THEN F("LIST:VOLT:POIN?") ELSE F("SYST:ERR?")
           s == Send(ctl, <<q>>, ok)
       IN  ctl' = [s EXCEPT !.pc = IF ctl.pc = "poin" THEN "poin_recv" ELSE "drain_recv"]
    /\ CtlFrame

\* int(pcount_str.strip()) does not raise
IsInt(reply) == reply.s = ""

\* lines 456-466: the answer to LIST:VOLT:POIN? is compared with total
UploadPoin(reply) ==
    /\ ctl.pc = "poin_recv"
    /\ ctl.connected \/ reply = NoReply
    /\ ctl' = IF reply # NoReply /\ IsInt(reply) /\ reply.n # Len(ctl.points)
              THEN Fail([ctl EXCEPT !.pcount = reply], "Point count mismatch")
              ELSE [ctl EXCEPT !.pcount = reply, !.pc = "drain", !.i = 0,
                               !.errors = <<>>]
    /\ CtlFrame

\* one turn of drain_errors' loop after its send_query, and lines 469-475
\* when the loop is left
DrainErrors(reply) ==
    /\ ctl.pc = "drain_recv"
    /\ ctl.connected \/ reply = NoReply
    /\ LET stop == reply = NoReply \/ reply.n = 0 \/ reply.s = "No error"
           errors == IF stop THEN ctl.errors ELSE Append(ctl.errors, reply)
           s == [ctl EXCEPT !.errors = errors, !.i = ctl.i + 1]
       IN  ctl' = IF ~stop /\ ctl.i + 1 < DRAIN_TURNS THEN [s EXCEPT !.pc = "drain"]
                  ELSE IF errors # <<>> THEN Fail(s, "Device errors")
                  ELSE [s EXCEPT !.pc = "done",
                                 !.result = [ok |-> TRUE, msg |-> "verified"]]
    /\ CtlFrame

(***************************************************************************)
(* Specification SpecChunk: one call of upload_list_chunk against an       *)
(* instrument of which only the answers are known: any send may fail, a    *)
(* query may time out, LIST:VOLT:POIN? is answered with any count or with   *)
(* text, SYST:ERR? with an error or with none                              *)
(***************************************************************************)
ChunkPoints ==
    {<<>>,
     [i \in 1..12 |-> P(100000 * i, 0)],
     <<P(-123456, 0), P(4, 0), P(-4, 0), P(250000, 0)>>,
     [i \in 1..3 |-> P(10 * i, 98)],
     <<P(100000, 0), P(10, 204)>>,
     [i \in 1..(UI_MAX_LIST_POINTS + 1) |-> P(0, 0)]}

PoinReplies == {NoReply, Resp(Len(ctl.points), ""), Resp(Len(ctl.points) - 1, ""),
                Resp(-100, "Command error")}

ErrReplies == {NoReply, Resp(0, "No error"), Resp(-221, "Settings conflict")}

\* the instrument reads a line
InstrumentTake ==
    /\ ctl.tx # <<>>
    /\ ctl' = [ctl EXCEPT !.tx = Tail(@)]
    /\ CtlFrame

InitChunk ==
    /\ InitProgram
    /\ InitHistory
    /\ conn = NoClient

NextChunk ==
    \/ \E points \in ChunkPoints : ctl.pc = "idle" /\ UploadListChunk(points, SLICE)
    \/ \E ok \in BOOLEAN :
        \/ UploadSetup(ok)
        \/ UploadValues(ok)
        \/ UploadSync(ok)
        \/ UploadQuery(ok)
    \/ \E reply \in PoinReplies : UploadPoin(reply)
    \/ \E reply \in ErrReplies : DrainErrors(reply)
    \/ InstrumentTake

SpecChunk == InitChunk /\ [][NextChunk]_vars

(***************************************************************************)
(* Specification SpecUpload: App._upload_thread's chunks uploaded one      *)
(* after the other over one connection to the simulator, which already     *)
(* holds a list; every send succeeds and every query is answered in time   *)
(***************************************************************************)
UploadPoints == [i \in 1..UploadTotal |-> P(100 * i, 0)]

\* chunks = [points[i:i + MAX_LIST_POINTS] for i in range(0, len(points), MAX_LIST_POINTS)]
Chunks(points) ==
    [c \in 1..((Len(points) + UI_MAX_LIST_POINTS - 1) \div UI_MAX_LIST_POINTS) |->
        SubSeq(points, (c - 1) * UI_MAX_LIST_POINTS + 1,
               Min(c * UI_MAX_LIST_POINTS, Len(points)))]

\* the fragments process() makes of a line of the controller; _parse_float_list
\* turns the tokens of LIST:VOLT into floats (units of 0.001)
ParseLine(line) ==
    [k \in DOMAIN line |->
        IF line[k].op = "LIST:VOLT"
        THEN [line[k] EXCEPT !.xs = [j \in DOMAIN @ |->
                                        (IF @[j].neg THEN -1 ELSE 1) * (@[j].m \div 10)]]
        ELSE line[k]]

\* _client_handler reads the controller's next line from the socket
SockRecv(c) ==
    /\ AtRecv(c)
    /\ ctl.tx # <<>>
    /\ conn' = [conn EXCEPT ![c].parts = ParseLine(Head(ctl.tx)), ![c].resp = <<>>]
    /\ list_owner_conn' =
          IF IsStartLine(Head(ctl.tx))
          THEN [list_owner_conn EXCEPT ![conn[c].srv] = c]
          ELSE list_owner_conn
    /\ ctl' = [ctl EXCEPT !.tx = Tail(@)]
    /\ UNCHANGED <<deviceVars, list_stop_event, runner, rx_lines, histVars>>

\* _recv_response: the handler has processed the query and sent its reply
Answered == ctl.tx = <<>> /\ AtRecv(1)

SimReply == IF conn[1].resp = <<>> THEN NoReply ELSE conn[1].resp[1]

\* the next chunk is uploaded when the one before succeeded
UploadThread ==
    /\ ctl.calls < Len(Chunks(UploadPoints))
    /\ ctl.pc = "done" => ctl.result.ok
    /\ UploadListChunk(Chunks(UploadPoints)[ctl.calls + 1], SLICE)

InitUpload ==
    /\ InitLoaded
    /\ conn = OneClient

NextUpload ==
    \/ UploadThread
    \/ UploadSetup(TRUE)
    \/ UploadValues(TRUE)
    \/ UploadSync(TRUE)
    \/ UploadQuery(TRUE)
    \/ Answered /\ UploadPoin(SimReply)
    \/ Answered /\ DrainErrors(SimReply)
    \/ \E c \in Conns :
        \/ SockRecv(c)
        \/ Begin(c)
        \/ FuncMode(c)
        \/ Rang(c)
        \/ ListCle(c)
        \/ Wai(c)
        \/ ListDwelSpace(c)
        \/ ListDwelExtend(c)
        \/ ListVoltCheck(c)
        \/ ListVoltSpace(c)
        \/ ListVoltExtend(c)
        \/ ListVoltPoin(c)
        \/ PopError(c)
        \/ Q(c)

SpecUpload == InitUpload /\ [][NextUpload]_vars

(***************************************************************************)
(* KepcoController: connect, disconnect and the two SCPI primitives with   *)
(* their transport errors                                                  *)
(***************************************************************************)
\* send_cmd returned True
SentOK == Resp(0, "True")

\* KepcoController.__init__: no socket, no address
NewCtl == [IdleCtl EXCEPT !.connected = FALSE, !.sock = FALSE, !.ip = FALSE]

\* connect(ip, port): the n ports of attempts are tried in turn; ok is the
\* attempt that succeeds (0: none does)
Connect(s, n, ok) ==
    IF ok > 0
    THEN [s EXCEPT !.sock = TRUE, !.ip = TRUE, !.connected = TRUE, !.last_error = "",
                   !.attempts = @ + ok]
    ELSE [s EXCEPT !.connected = FALSE, !.last_error = "refused", !.fault = "refused",
                   !.attempts = @ + n]

\* disconnect(): the socket is closed and dropped
DisconnectCtl(s) == [s EXCEPT !.sock = FALSE, !.connected = FALSE]

\* _safe_reconnect(): one attempt, at the address and port of the last
\* connection; none when there was no connection
SafeReconnect(s, ok) == IF ~s.ip THEN s ELSE Connect(s, 1, IF ok THEN 1 ELSE 0)

\* a variant of the exception handler that keeps the connection
RaisedKeeps(s, e) ==
    [s EXCEPT !.last_error = e, !.fault = e, !.ret = NoReply]

\* except Exception as e: self.last_error = str(e); self.disconnect(); return None
Raised(s, e) ==
    [DisconnectCtl(s) EXCEPT !.last_error = e, !.fault = e, !.ret = NoReply]

\* a variant of send_query that drops the connection when the read deadline
\* expires
SendQueryDrops(s, line, reconn, net, reply) ==
    LET s0 == [s EXCEPT !.op = "query", !.fault = "none", !.attempts = 0]
        t == IF s.connected THEN s0 ELSE SafeReconnect(s0, reconn)
        u == [t EXCEPT !.tx = Append(@, line)]
    IN  IF ~t.connected THEN [t EXCEPT !.ret = NoReply]
        ELSE CASE net = "ok" -> [u EXCEPT !.ret = reply]
               [] net = "deadline" -> Raised(u, "deadline")
               [] net = "closed" -> Raised(u, "closed")
               [] OTHER -> Raised(t, net)

\* send_cmd(cmd): reconnect when disconnected; sendall, or the exception it
\* raises (net: ok, reset, timeout)
SendCmd(s, line, reconn, net) ==
    LET s0 == [s EXCEPT !.op = "cmd", !.fault = "none", !.attempts = 0]
        t == IF s.connected THEN s0 ELSE SafeReconnect(s0, reconn)
    IN  IF ~t.connected THEN [t EXCEPT !.ret = NoReply]
        ELSE IF net = "ok" THEN [t EXCEPT !.tx = Append(@, line), !.ret = SentOK]
        ELSE Raised(t, net)

\* send_query(cmd): reconnect when disconnected; sendall and _recv_response
\* (net: ok, reset or timeout of sendall, deadline: no usable line before the
\* read deadline, closed: recv returns b"")
SendQuery(s, line, reconn, net, reply) ==
    LET s0 == [s EXCEPT !.op = "query", !.fault = "none", !.attempts = 0]
        t == IF s.connected THEN s0 ELSE SafeReconnect(s0, reconn)
        u == [t EXCEPT !.tx = Append(@, line)]
    IN  IF ~t.connected THEN [t EXCEPT !.ret = NoReply]
        ELSE CASE net = "ok" -> [u EXCEPT !.ret = reply]
               [] net = "deadline" -> [u EXCEPT !.last_error = "No response",
                                               !.fault = "deadline", !.ret = NoReply]
               [] net = "closed" -> Raised(u, "closed")
               [] OTHER -> Raised(t, net)

(***************************************************************************)
(* Specification SpecLink: a new controller is connected, disconnected and *)
(* sends commands and queries over a network that may refuse, reset, time  *)
(* out or close; the instrument reads the lines                            *)
(***************************************************************************)
SendFaults == {"ok", "reset", "timeout"}
RecvFaults == {"deadline", "closed"}
LinkReplies == {Resp(0, "1"), Resp(0, "junk")}

\* _toggle_connect while disconnected: connect(ip) tries the Telnet port, then
\* the socket port
CtlConnect(ok) ==
    /\ ~ctl.connected
    /\ ctl' = Connect([ctl EXCEPT !.op = "connect", !.fault = "none", !.attempts = 0],
                      2, ok)
    /\ CtlFrame

\* _toggle_connect while connected
CtlDisconnect ==
    /\ ctl.connected
    /\ ctl' = [DisconnectCtl(ctl) EXCEPT !.op = "disconnect", !.fault = "none",
                                         !.attempts = 0]
    /\ CtlFrame

CtlSendCmd(reconn, net) ==
    /\ CanSend
    /\ ctl' = SendCmd(ctl, <<F("*WAI")>>, reconn, net)
    /\ CtlFrame

CtlSendQuery(reconn, net, reply) ==
    /\ CanSend
    /\ ctl' = SendQuery(ctl, <<F("*OPC?")>>, reconn, net, reply)
    /\ CtlFrame

InitLink ==
    /\ InitProgram
    /\ hScenario = NoScenario
    /\ hOffOn = NoOffOn
    /\ hRunConn = None
    /\ hAfter = NoAfter
    /\ ctl = NewCtl
    /\ conn = NoClient

NextLink ==
    \/ \E ok \in 0..2 : CtlConnect(ok)
    \/ CtlDisconnect
    \/ \E reconn \in BOOLEAN, net \in SendFaults : CtlSendCmd(reconn, net)
    \/ \E reconn \in BOOLEAN, net \in SendFaults \cup RecvFaults, reply \in LinkReplies :
          CtlSendQuery(reconn, net, reply)
    \/ InstrumentTake

SpecLink == InitLink /\ [][NextLink]_vars

(***************************************************************************)
(* One KepcoController used by several threads: send_cmd and send_query    *)
(* step by step, with self._lock (ctl.lock: the thread that holds it, 0:   *)
(* free) and each thread's position in ctl.th                              *)
(***************************************************************************)
Threads == 1..MaxThreads

\* a thread that is in no primitive
IdleThread == [pc |-> "idle", kind |-> "none"]

\* the thread leaves the with block: the lock is released
Leave(s, t) == [s EXCEPT !.lock = 0, !.th[t] = IdleThread]

\* send_cmd / send_query up to the lock: one reconnect attempt when the
\* client is disconnected, return None when it fails
ThEnter(t, kind, reconn) ==
    /\ ctl.th[t].pc = "idle"
    /\ LET s0 == [ctl EXCEPT !.op = kind, !.fault = "none", !.attempts = 0]
           s == IF ctl.connected THEN s0 ELSE SafeReconnect(s0, reconn)
       IN  ctl' = IF s.connected THEN [s EXCEPT !.th[t] = [pc |-> "wait", kind |-> kind]]
                  ELSE [s EXCEPT !.ret = NoReply]
    /\ CtlFrame

\* a variant of the with statement that does not wait for the lock
ThAcquireFree(t) ==
    /\ ctl.th[t].pc = "wait"
    /\ ctl' = [ctl EXCEPT !.lock = t, !.th[t].pc = "held"]
    /\ CtlFrame

\* with self._lock: the thread waits until the lock is free and takes it
ThAcquire(t) ==
    /\ ctl.th[t].pc = "wait"
    /\ ctl.lock = 0
    /\ ctl' = [ctl EXCEPT !.lock = t, !.th[t].pc = "held"]
    /\ CtlFrame

\* (_drain_stale and) self.sock.sendall(...): the line is written, or the
\* call raises (self.sock is None after a disconnect(), reset, timeout) and
\* the handler disconnects and returns None
ThWrite(t, net) ==
    /\ ctl.th[t].pc = "held"
    /\ CanSend
    /\ LET line == IF ctl.th[t].kind = "cmd" THEN <<F("*WAI")>> ELSE <<F("*OPC?")>>
       IN  ctl' = IF ~ctl.sock THEN Leave(Raised(ctl, "closed"), t)
                  ELSE IF net = "ok"
                  THEN [ctl EXCEPT !.tx = Append(@, line), !.th[t].pc = "written"]
                  ELSE Leave(Raised(ctl, net), t)
    /\ CtlFrame

\* time.sleep(SCPI_CMD_GAP) and _drain_echo() of send_cmd, _recv_response of
\* send_query, and the return that releases the lock
ThFinish(t, net, reply) ==
    /\ ctl.th[t].pc = "written"
    /\ ctl' = IF ~ctl.sock THEN Leave(Raised(ctl, "closed"), t)
              ELSE IF ctl.th[t].kind = "cmd" THEN Leave([ctl EXCEPT !.ret = SentOK], t)
              ELSE CASE net = "ok" -> Leave([ctl EXCEPT !.ret = reply], t)
                     [] net = "deadline" ->
                          Leave([ctl EXCEPT !.last_error = "No response",
                                            !.fault = "deadline", !.ret = NoReply], t)
                     [] OTHER -> Leave(Raised(ctl, "closed"), t)
    /\ CtlFrame

(***************************************************************************)
(* Specification SpecPace: the threads of the application send commands    *)
(* and queries through one controller while the user may disconnect and    *)
(* connect; the instrument reads the lines                                 *)
(***************************************************************************)
InitPace ==
    /\ InitProgram
    /\ hScenario = NoScenario
    /\ hOffOn = NoOffOn
    /\ hRunConn = None
    /\ hAfter = NoAfter
    /\ conn = NoClient
    /\ ctl = [IdleCtl EXCEPT !.sock = TRUE, !.ip = TRUE,
                             !.th = [t \in Threads |-> IdleThread]]

NextPace ==
    \/ \E t \in Threads :
          \/ \E kind \in {"cmd", "query"}, reconn \in BOOLEAN : ThEnter(t, kind, reconn)
          \/ ThAcquire(t)
          \/ \E net \in SendFaults : ThWrite(t, net)
          \/ \E net \in {"ok"} \cup RecvFaults, reply \in LinkReplies :
                ThFinish(t, net, reply)
    \/ \E ok \in 0..2 : CtlConnect(ok)
    \/ CtlDisconnect
    \/ InstrumentTake

SpecPace == InitPace /\ [][NextPace]_vars

(***************************************************************************)
(* KepcoController.run_list and stop                                       *)
(***************************************************************************)
\* [f"LIST:COUN {count}", "OUTP ON", f"{mode}:MODE LIST"]
RunCmds(mode, count) ==
    <<FN("LIST:COUN", count), F("OUTP ON"),
      F(IF mode = "VOLT" THEN "VOLT:MODE LIST" ELSE "CURR:MODE LIST")>>

\* a variant of stop's command list that leaves the output alone
StopCmdsNoOff == <<F("VOLT:MODE FIX"), F("CURR:MODE FIX"), F("FUNC:MODE VOLT")>>

\* ["VOLT:MODE FIX", "CURR:MODE FIX", "OUTP OFF", "FUNC:MODE VOLT"]
StopCmds == <<F("VOLT:MODE FIX"), F("CURR:MODE FIX"), F("OUTP OFF"), F("FUNC:MODE VOLT")>>

\* run_list / stop are called: the for loop is entered
Call(name, cmds) ==
    /\ ctl.pc \in {"idle", "done"}
    /\ ctl.calls < MaxCalls
    /\ ctl' = [ctl EXCEPT !.pc = "for", !.call = name, !.cmds = cmds, !.ops = <<>>,
                          !.calls = @ + 1, !.result = [ok |-> FALSE, msg |-> "none"]]
    /\ CtlFrame

RunList(mode, count) == Call("run_list", RunCmds(mode, count))

Stop == Call("stop", StopCmds)

\* for cmd in [...]: if self.send_cmd(cmd) is None: return False, msg; after
\* the last command return True, msg.  A reconnect reaches the simulator once
\* the handler of the dropped connection has ended, and is refused before
ForCmd(reconn, net) ==
    /\ ctl.pc = "for"
    /\ CanSend
    /\ LET up == reconn /\ conn[1].st = "closed"
           s == SendCmd(ctl, <<Head(ctl.cmds)>>, up, net)
           t == [s EXCEPT !.cmds = Tail(@), !.ops = Append(@, Head(ctl.cmds).op)]
       IN  /\ ctl' = IF s.ret # SentOK THEN Fail(s, "failed")
                     ELSE IF Tail(ctl.cmds) # <<>> THEN t
                     ELSE [t EXCEPT !.pc = "done", !.result = [ok |-> TRUE, msg |-> "ok"]]
           /\ conn' = IF ~ctl.connected /\ ctl.ip /\ up
                      THEN [conn EXCEPT ![1] = OpenConn("socket")]
                      ELSE conn
    /\ UNCHANGED <<deviceVars, list_stop_event, runner, list_owner_conn, rx_lines,
                   histVars>>

\* the handler of a connection the controller has dropped reads the lines
\* that were sent, then recv returns b""
Dropped(c) ==
    /\ ~ctl.sock
    /\ ctl.tx = <<>>
    /\ Disconnect(c)

(***************************************************************************)
(* Specification SpecStop: the list of SpecRun is loaded; the controller,  *)
(* connected to the raw-socket server, calls run_list and stop in any      *)
(* order while sendall may fail                                            *)
(***************************************************************************)
StopCounts == {2}

InitStop ==
    /\ InitLoaded
    /\ conn = OneClient

NextStop ==
    \/ \E mode \in {"VOLT", "CURR"}, count \in StopCounts : RunList(mode, count)
    \/ Stop
    \/ \E reconn \in BOOLEAN, net \in {"ok", "reset"} : ForCmd(reconn, net)
    \/ \E c \in Conns :
        \/ SockRecv(c)
        \/ Dropped(c)
        \/ Begin(c)
        \/ PushError(c)
        \/ ListCoun(c)
        \/ OutpOn(c)
        \/ OutpOff(c)
        \/ FuncMode(c)
        \/ StopListLock(c)
        \/ StopListSet(c)
        \/ VoltModeFix(c)
        \/ CurrModeFix(c)
        \/ VoltModeList(c)
        \/ CurrModeList(c)
        \/ StartListLock(c)
        \/ StartListThread(c)
    \/ \E r \in Runners :
        \/ Snapshot(r)
        \/ While(r)
        \/ For(r)
        \/ Step(r)
        \/ Slice(r)
        \/ SliceLock(r)
        \/ FinallyLock(r)
        \/ FinallySet(r)

SpecStop == InitStop /\ [][NextStop]_vars

(***************************************************************************)
(* Claims                                                                  *)
(***************************************************************************)

\* C1: on a device whose output is off and with no list running, the command
\* sequence VOLT x, OUTP ON makes a following MEAS:VOLT? return a value
\* within x +/- 0.002.
C1_MeasAfterVoltOutpOn ==
    hScenario.ph = 3 => Abs(hScenario.got - hScenario.x) <= NOISE_AMPLITUDE

\* C2: OUTP OFF immediately followed by OUTP ON leaves voltSetpoint and
\* currSetpoint equal to the values they had immediately before the OUTP OFF,
\* and between the two commands both setpoints are zero.
C2_OffOnRestoresSetpoints ==
    /\ hOffOn.ph = "off" => volt_setpoint = 0 /\ curr_setpoint = 0
    /\ hOffOn.ph = "on" => volt_setpoint = hOffOn.v /\ curr_setpoint = hOffOn.i

\* an OUTP OFF / OUTP ON round trip has restored a non-zero voltage and a
\* non-zero current setpoint
C2_Witness ==
    /\ hOffOn.ph = "on"
    /\ hOffOn.v = 5000
    /\ hOffOn.i = 1000
    /\ output_on

\* the executor is in its iteration loop, between resolving its order and
\* its cleanup
InLoop(r) == runner[r].pc \in {"while", "for", "step", "slice", "slice_lock"}

\* C3: at most one LIST executor is active at any time, under every
\* interleaving of starts, stops, ABOR and *RST, including a start issued right
\* after a stop, before the stopped executor has observed the stop.
C3_AtMostOneExecutor ==
    Cardinality({r \in Runners : InLoop(r)}) <= 1

AlreadyRunning == Err(E_CONFLICT, "Settings conflict; list already running")

IsStart(c) == conn[c].cur.op \in {"VOLT:MODE LIST", "CURR:MODE LIST"}

\* C4: a VOLT:MODE LIST / CURR:MODE LIST processed while listRunning is true
\* appends exactly one -221 entry to the error queue, starts no second
\* executor, and changes nothing the running executor reads or writes
\* (its locals, listRunning, the stop event, listStepIndex, listIteration),
\* so the executor goes on through the steps it would have visited.
C4_StartWhileRunning ==
    [][\A c \in Conns :
        /\ (conn[c].pc \in {"volt_list", "curr_list"} /\ conn'[c].pc # conn[c].pc)
             => UNCHANGED <<runner, progressVars, list_stop_event, error_queue>>
        /\ (conn[c].pc = "start_lock" /\ conn'[c].pc # "start_lock" /\ list_running)
             => /\ conn'[c].pc = "push_error"
                /\ conn'[c].err = AlreadyRunning
                /\ conn'[c].ret = "next"
                /\ UNCHANGED <<runner, progressVars, list_stop_event, error_queue>>
        /\ (conn[c].pc = "push_error" /\ IsStart(c) /\ conn'[c].pc # "push_error")
             => /\ error_queue' = Append(error_queue, AlreadyRunning)
                /\ conn'[c].pc = "next"
                /\ UNCHANGED <<runner, progressVars, list_stop_event>>
      ]_vars

\* a start was rejected with -221 while the only executor is on its second
\* step, and the run goes on
C4_Witness ==
    /\ \E i \in 1..Len(error_queue) : error_queue[i] = AlreadyRunning
    /\ list_running
    /\ list_step_idx = 1
    /\ Cardinality({r \in Runners : Alive(r)}) = 1
    /\ \E r \in Runners : runner[r].pc = "slice_lock" /\ ~runner[r].cancelled

\* C5: if the connection whose command started the LIST run in progress
\* disconnects while that run is still running, the server stops the
\* sequencer, however the start was sent (a line of its own or a compound
\* line) and whatever other connections did in between: no state has that
\* connection's handler finished and the run still running.
C5_OwnerDisconnectStops ==
    \A c \in Conns :
        ~(hRunConn = c /\ conn[c].st = "closed" /\ list_running)

\* C6: after ABOR, VOLT:MODE FIX or CURR:MODE FIX is processed while a LIST
\* run is active, the executor of that run makes no further update to
\* listStepIndex / listIteration, whatever commands are processed afterwards.
C6_NoUpdateAfterStop ==
    [][\A r \in Runners :
        runner[r].cancelled =>
            ~(runner[r].pc = "step" /\ runner'[r].pc # "step" /\ list_running)
      ]_vars

\* C7: when a LIST run ends by any path (normal completion, empty list,
\* dwell/point mismatch, empty order, cancellation), the executor leaves only
\* through its cleanup, and the state immediately after the cleanup's critical
\* section has listRunning = false, voltMode # LIST and currMode # LIST.
C7_CleanupLeavesIdle ==
    [][\A r \in Runners :
        /\ (runner[r].pc # "idle" /\ runner'[r].pc = "idle")
             => runner[r].pc = "fin_set"
        /\ (runner[r].pc # "fin_set" /\ runner'[r].pc = "fin_set")
             => (~list_running' /\ volt_mode' # "LIST" /\ curr_mode' # "LIST")
      ]_vars

\* an executor that was cancelled on its second step has done its cleanup and
\* is about to exit
C7_Witness ==
    \E r \in Runners :
        /\ runner[r].pc = "fin_set"
        /\ runner[r].cancelled
        /\ list_step_idx = 1
        /\ ~list_running
        /\ volt_mode = "FIX"
        /\ curr_mode = "FIX"

\* C7 as stated: when a LIST run ends by any path, the state immediately after
\* the executor's exit has listRunning = false, voltMode # LIST and
\* currMode # LIST.
C7_ExitLeavesIdle ==
    [][\A r \in Runners :
        (runner[r].pc = "fin_set" /\ runner'[r].pc = "idle")
            => (~list_running' /\ volt_mode' # "LIST" /\ curr_mode' # "LIST")
      ]_vars

\* C8: after a *RST processed while a LIST run is active has completed, the
\* executor of the pre-reset run performs no further write to listStepIndex,
\* listIteration, listRunning, voltMode or currMode, even if a new run is
\* started right after the reset.
C8_NoWriteAfterReset ==
    [][\A r \in Runners :
        (runner[r].pre_reset /\ runner'[r].pc # runner[r].pc)
            => UNCHANGED <<list_step_idx, list_iteration, list_running,
                           volt_mode, curr_mode>>
      ]_vars

\* C9: once VOLT:MODE LIST / CURR:MODE LIST has started a run, LIST:* commands
\* processed afterwards do not change the sequence of step indices or the
\* number of iterations the run executes: what the executor works from (its
\* order, count and skip, or the error it ends with) is what the configuration
\* gave when the start command was processed.
C9_RunUsesStartConfig ==
    \A r \in Runners :
        runner[r].pc \in {"push_error", "while", "for", "step", "slice", "slice_lock"}
            => PlanOf(runner[r]) = runner[r].plan0

\* C10: in every reachable state, with commands arriving on any number of
\* connections, listVolt and listCurr are never both non-empty.
C10_OneListPopulated ==
    list_volt = <<>> \/ list_curr = <<>>

\* the steps a run that is not cancelled goes through, as pairs
\* <<iteration, step index>>: the whole order in iteration 0, order[skip:] in
\* each of the count - 1 iterations after it
Visits(t) ==
    LET rest == PyFrom(t.order, t.skip)
        a == Len(t.order)
        b == Len(rest)
    IN  [i \in 1..(a + (t.count - 1) * b) |->
            IF i <= a THEN <<0, t.order[i]>>
            ELSE <<1 + ((i - a - 1) \div b), rest[((i - a - 1) % b) + 1]>>]

\* C11: a run with listCount = c > 0, listCountSkip = k and resolved order O
\* that is not cancelled executes exactly c iterations: the first visits every
\* element of O in order, each later one visits O[k:] in order, and the run
\* ends after the last of these steps and not before.
C11_RunExecutesPlan ==
    [][\A r \in Runners :
        LET t == runner[r]
        IN  t.count > 0 =>
              /\ (t.pc = "step" /\ list_running /\ runner'[r].pc # "step")
                   => /\ t.steps < Len(Visits(t))
                      /\ <<list_iteration', list_step_idx'>> = Visits(t)[t.steps + 1]
                      /\ runner'[r].pc = "slice"
              /\ (t.pc = "while" /\ runner'[r].pc = "fin_lock" /\ ~list_stop_event)
                   => t.steps = Len(Visits(t))
      ]_vars

\* the step of connection c in which process() takes an unrecognised part
BeginsUnrecognised(c) ==
    /\ conn[c].pc = "next"
    /\ conn[c].parts # <<>>
    /\ Entry(Head(conn[c].parts).op) = "push_error"
    /\ conn'[c] # conn[c]

\* C15: a command fragment that matches no recognised SCPI command produces
\* no response, appends exactly one -100 entry to the error queue, and changes
\* no other device field except the command counter.
C15_UnrecognisedCommand ==
    [][\A c \in Conns :
        /\ BeginsUnrecognised(c)
             => /\ cmd_count' = cmd_count + 1
                /\ conn'[c].pc = "push_error"
                /\ conn'[c].resp = conn[c].resp
                /\ UNCHANGED <<outVars, modeVars, listCfgVars, progressVars,
                               error_queue, query_count>>
        /\ (conn[c].pc = "push_error" /\ conn[c].err.code = E_COMMAND
                /\ conn'[c] # conn[c])
             => /\ error_queue' = Append(error_queue, conn[c].err)
                /\ conn'[c].pc = "next"
                /\ conn'[c].cur = NoFrag
                /\ conn'[c].resp = conn[c].resp
                /\ UNCHANGED <<outVars, modeVars, listCfgVars, progressVars,
                               cmd_count, query_count>>
      ]_vars

\* FOO:BAR has been processed while a run is in progress: one -100 entry is
\* queued and no response was produced
C15_Witness ==
    /\ error_queue = <<Err(E_COMMAND, "Command error; unrecognised")>>
    /\ list_running
    /\ AtRecv(1)
    /\ conn[1].resp = <<>>
    /\ cmd_count = 4

\* the command headers that end in '?'
QueryOps ==
    {"SYST:ERR?", "MEAS:VOLT?", "MEAS:CURR?", "VOLT?", "CURR?",
     "LIST:VOLT:POIN?", "LIST:CURR:POIN?"}

\* C16: for every command fragment the interpreter returns at most one
\* response string, and none when the fragment is not a query: a response is
\* added only by a fragment whose header ends in '?', one at a time, and the
\* fragment is finished with it.
C16_ResponsesOnlyToQueries ==
    [][\A c \in Conns :
        Len(conn'[c].resp) > Len(conn[c].resp)
            => /\ conn[c].cur.op \in QueryOps
               /\ Len(conn'[c].resp) = Len(conn[c].resp) + 1
               /\ conn'[c].pc = "next"
               /\ conn'[c].cur = NoFrag
      ]_vars

\* a query has been answered after OUTP ON, a command, was processed without
\* a response
C16_Witness ==
    /\ output_on
    /\ AtRecv(1)
    /\ Len(conn[1].resp) = 1
    /\ query_count = 1
    /\ cmd_count = 4

\* C17: queued errors are returned by SYST:ERR? oldest first, one per query;
\* with the queue empty SYST:ERR? returns 0,"No error" and leaves the queue
\* empty, so it keeps doing so until a command enqueues a new error.
C17_ErrorsOldestFirst ==
    [][\A c \in Conns :
        (conn[c].pc = "pop_error" /\ conn'[c] # conn[c])
            => /\ conn'[c].pc = "q"
               /\ IF error_queue = <<>>
                  THEN /\ conn'[c].val = Resp(0, "No error")
                       /\ error_queue' = <<>>
                  ELSE /\ conn'[c].val = Resp(Head(error_queue).code,
                                              Head(error_queue).msg)
                       /\ error_queue' = Tail(error_queue)
      ]_vars

\* of the two queued errors -100 and -221, SYST:ERR? has returned the older
C17_Witness ==
    /\ conn[1].pc = "q"
    /\ conn[1].cur.op = "SYST:ERR?"
    /\ conn[1].val.n = E_COMMAND
    /\ Len(error_queue) = 1
    /\ error_queue[1].code = E_CONFLICT

\* C18: in every reachable state (output on or off, list running or not),
\* after VOLT x the next VOLT? returns x rounded to the seven significant
\* digits of the %.6E format, and after CURR x the next CURR? likewise, when
\* no other command is processed in between.
C18_SetpointReadBack ==
    [][\A c \in Conns :
        /\ (conn[c].pc = "volt_q" /\ conn'[c] # conn[c] /\ hAfter.op = "VOLT")
             => conn'[c].val = Resp(Fmt6E(hAfter.x), "")
        /\ (conn[c].pc = "curr_q" /\ conn'[c] # conn[c] /\ hAfter.op = "CURR")
             => conn'[c].val = Resp(Fmt6E(hAfter.x), "")
      ]_vars

\* VOLT 12345.678 is read back as 1.234568E+04 with the output off and a run
\* in progress
C18_Witness ==
    /\ hAfter = [op |-> "VOLT", x |-> 12345678]
    /\ conn[1].pc = "q"
    /\ conn[1].val.n = 12345680
    /\ ~output_on
    /\ list_running

\* C18 as stated: the value read back is x itself
C18_ReadBackExact ==
    [][\A c \in Conns :
        /\ (conn[c].pc = "volt_q" /\ conn'[c] # conn[c] /\ hAfter.op = "VOLT")
             => conn'[c].val.n = hAfter.x
        /\ (conn[c].pc = "curr_q" /\ conn'[c] # conn[c] /\ hAfter.op = "CURR")
             => conn'[c].val.n = hAfter.x
      ]_vars

\* C19: after LIST:CLE is processed, LIST:VOLT:POIN? and LIST:CURR:POIN? both
\* return 0, whatever the lists held before and whether or not a list is
\* running.
C19_ClearedListsCountZero ==
    [][\A c \in Conns :
        (conn[c].pc \in {"lv_poin", "lc_poin"} /\ conn'[c] # conn[c]
            /\ hAfter.op = "LIST:CLE")
            => conn'[c].val = Resp(0, "")
      ]_vars

\* LIST:VOLT:POIN? answers 0 after LIST:CLE while the executor of a run over
\* the two points is stepping
C19_Witness ==
    /\ hAfter.op = "LIST:CLE"
    /\ conn[1].pc = "q"
    /\ conn[1].cur.op = "LIST:VOLT:POIN?"
    /\ conn[1].val.n = 0
    /\ list_running
    /\ \E r \in Runners : runner[r].pc = "slice" /\ Len(runner[r].points) = 2

\* C20: a run over N points with listDwell = [d] visits the same step indices
\* in the same order, with the same dwell d at every step, as a run over the
\* same points with listDwell holding N copies of d: the executor resolves
\* both configurations to the same points, dwells, order, count and skip, and
\* every step it publishes dwells for d.
C20_SingleDwellAsCopies ==
    [][\A r \in Runners :
        /\ (runner[r].pc = "snapshot" /\ runner'[r] # runner[r]
                /\ Len(list_dwel) = 1)
             => LET d == list_dwel[1]
                    copies == [Config EXCEPT !.dwells = Copies(d, Len(Config.points))]
                    res == Resolved(copies)
                IN  /\ runner'[r].points = res.points
                    /\ runner'[r].dwells = res.dwells
                    /\ runner'[r].order = res.order
                    /\ runner'[r].count = res.count
                    /\ runner'[r].skip = res.skip
                    /\ runner'[r].err = res.err
                    /\ res.err = NoError => res.dwells = Copies(d, Len(Config.points))
        /\ (runner[r].pc = "step" /\ runner'[r].pc = "slice")
             => runner'[r].remaining = list_dwel[1]
      ]_vars

\* a run over four points with the single dwell entry has published its
\* third step and dwells
C20_Witness ==
    /\ Len(list_dwel) = 1
    /\ \E r \in Runners :
          /\ runner[r].pc = "slice"
          /\ Len(runner[r].dwells) = 4
          /\ runner[r].steps = 3
          /\ runner[r].remaining = list_dwel[1]

\* C12: upload_list_chunk returns success only if the device answered
\* LIST:VOLT:POIN? with a count equal to the number of points sent and the
\* error-queue drain found no entries.
C12_SuccessMeansVerified ==
    (ctl.pc = "done" /\ ctl.result.ok)
        => /\ ctl.pcount # NoReply
           /\ IsInt(ctl.pcount)
           /\ ctl.pcount.n = Len(ctl.points)
           /\ ctl.errors = <<>>

RECURSIVE Values(_)
\* the values of the LIST commands sent, in send order
Values(log) == IF log = <<>> THEN <<>> ELSE Head(log).xs \o Values(Tail(log))

\* C14: every LIST:VOLT command of upload_list_chunk carries between 1 and 10
\* values and is at most 200 characters long; the values of all commands in
\* send order are the tokens of the input points in order; progress_cb is
\* called once per batch with sent strictly increasing, and ends at total.
C14_BatchesCarryPoints ==
    /\ \A i \in DOMAIN ctl.log :
          /\ Len(ctl.log[i].xs) \in 1..LIST_VALUES_PER_CMD
          /\ ctl.log[i].len <= CHUNK_CMD_LIMIT
    /\ Values(ctl.log) = [j \in 1..ctl.sent |-> Fmt(ctl.points[j])]
    /\ Len(ctl.progress) = Len(ctl.log)
    /\ \A i \in DOMAIN ctl.progress :
          ctl.progress[i] > (IF i = 1 THEN 0 ELSE ctl.progress[i - 1])
    /\ (ctl.pc \in {"sync", "poin", "poin_recv", "drain", "drain_recv"}
            \/ (ctl.pc = "done" /\ ctl.result.ok))
         => /\ ctl.progress # <<>>
            /\ ctl.progress[Len(ctl.progress)] = Len(ctl.points)

C24_StepIndexValid ==
    list_running => (0 <= list_step_idx /\ list_step_idx < Len(Config.points))

RECURSIVE ValidEntries(_, _)
\* the entries i of seq with 0 <= i < n, in their order
ValidEntries(seq, n) ==
    IF seq = <<>> THEN <<>>
    ELSE IF 0 <= Head(seq) /\ Head(seq) < n
         THEN <<Head(seq)>> \o ValidEntries(Tail(seq), n)
         ELSE ValidEntries(Tail(seq), n)

\* C25: the resolved execution order of a run over N points is 0,1,...,N-1 in
\* DSEQ mode and, in SEQ mode, the configured sequence restricted to the
\* entries i with 0 <= i < N in their configured order; in both modes the
\* order is reversed when list_dir is DOWN.
C25_ResolvedOrder ==
    [][\A r \in Runners :
        (runner[r].pc = "snapshot" /\ runner'[r].pc = "while")
            => LET n == Len(Config.points)
                   base == IF list_gen = "DSEQ" THEN Range0(n)
                           ELSE ValidEntries(list_seq, n)
               IN  runner'[r].order = IF list_dir = "DOWN" THEN Reverse(base) ELSE base
      ]_vars

\* C26: a run started with an empty active point list, with a dwell list
\* whose length is neither 1 nor the point count, or with an empty resolved
\* order executes no step, enqueues exactly one error (-200 for the empty
\* list, -221 for the other two cases) and sets list_running back to false:
\* its executor resolves the error the configuration gave at the start,
\* pushes it and goes through its cleanup without publishing a step.
C26_ErrorRunEndsAtOnce ==
    [][\A r \in Runners :
        LET t == runner[r]
        IN  (t.plan0.err # 0 /\ runner'[r].pc # t.pc)
                => /\ runner'[r].steps = 0
                   /\ t.pc = "snapshot"
                        => /\ runner'[r].pc = "push_error"
                           /\ runner'[r].err.code = t.plan0.err
                   /\ t.pc = "push_error"
                        => /\ error_queue' = Append(error_queue, t.err)
                           /\ runner'[r].pc = "fin_lock"
                   /\ t.pc # "push_error" => error_queue' = error_queue
                   /\ t.pc = "fin_lock" => ~list_running'
      ]_vars

\* C27: a run whose configured count is 0 never ends on its own: its executor
\* leaves the iteration loop only after a stop request (ABOR, a mode set to
\* FIX, *RST or the owner's disconnect), which sets the stop event or puts
\* list_running off.
C27_ForeverUntilStopped ==
    [][\A r \in Runners :
        (InLoop(r) /\ runner[r].count = 0 /\ runner'[r].pc = "fin_lock")
            => (list_stop_event \/ ~list_running)
      ]_vars

\* C28: a command that raises -221 (settings conflict) is a no-op: the step
\* that raises it changes no device field, and the handler has changed none
\* before it (the mode it set to LIST was LIST already); only the error queue
\* and the command counter differ once the command is done.
C28_ConflictIsNoOp ==
    [][\A c \in Conns :
        (conn[c].pc # "push_error" /\ conn'[c].pc = "push_error"
           /\ conn'[c].err.code = E_CONFLICT)
            => /\ UNCHANGED <<outVars, modeVars, listCfgVars, progressVars>>
               /\ conn[c].pc = "start_lock" => conn[c].old = "LIST"
      ]_vars

\* C29: with LIST commands arriving on any number of connections at once, the
\* voltage, current and dwell lists never hold more than MAX_LIST_POINTS (1002)
\* entries and the sequence never more than MAX_SEQ_POINTS (512).
C29_ListsWithinLimits ==
    /\ Len(list_volt) <= MAX_LIST_POINTS
    /\ Len(list_curr) <= MAX_LIST_POINTS
    /\ Len(list_dwel) <= MAX_LIST_POINTS
    /\ Len(list_seq) <= MAX_SEQ_POINTS

\* C30: every stored dwell value lies in [LIST_DWELL_MIN, LIST_DWELL_MAX]
\* (0.0005 s to 10.0 s), whatever LIST:DWEL was given.
C30_DwellsInRange ==
    \A i \in 1..Len(list_dwel) :
        /\ list_dwel[i] # NaN
        /\ LIST_DWELL_MIN <= list_dwel[i]
        /\ list_dwel[i] <= LIST_DWELL_MAX

\* LIST:DWEL with numbers: a value out of range is stored clamped and -222 is
\* enqueued before the values are stored; values in range are stored as they
\* are and nothing is enqueued.
DwelNumbersClamped ==
    [][\A c \in Conns :
        (conn[c].pc = "ld_space" /\ conn'[c].pc # "ld_space")
            => LET space == MAX_LIST_POINTS - Len(list_dwel)
                   xs == Take(conn[c].cur.xs, space)
                   fits == \A i \in 1..Len(xs) :
                              LIST_DWELL_MIN <= xs[i] /\ xs[i] <= LIST_DWELL_MAX
               IN  (space > 0 /\ \A i \in 1..Len(xs) : xs[i] # NaN)
                     => /\ conn'[c].vals = [i \in 1..Len(xs) |->
                                              IF xs[i] < LIST_DWELL_MIN THEN LIST_DWELL_MIN
                                              ELSE Min(xs[i], LIST_DWELL_MAX)]
                        /\ fits => conn'[c].pc = "ld_extend"
                        /\ ~fits => /\ conn'[c].pc = "push_error"
                                    /\ conn'[c].err.code = E_RANGE
                                    /\ conn'[c].ret = "ld_extend"
      ]_vars

\* C21: a send_query whose read deadline expires without a usable line returns
\* None and leaves the client connected, its socket kept; a send_query that
\* finds the connection closed by the peer returns None and leaves the client
\* disconnected, its socket dropped.
C21_DeadlineKeepsConnection ==
    /\ (ctl.op = "query" /\ ctl.fault = "deadline")
           => (ctl.ret = NoReply /\ ctl.connected /\ ctl.sock)
    /\ (ctl.op = "query" /\ ctl.fault = "closed")
           => (ctl.ret = NoReply /\ ~ctl.connected /\ ~ctl.sock)

\* a query sent on a connection that was up is still connected after its read
\* deadline has expired
C21_Witness ==
    /\ ctl.op = "query"
    /\ ctl.fault = "deadline"
    /\ ctl.attempts = 0
    /\ ctl.connected
    /\ ctl.last_error = "No response"

\* a step of send_cmd or send_query (the instrument's reading shortens tx)
IsSend == ctl'.op \in {"cmd", "query"} /\ Len(ctl'.tx) >= Len(ctl.tx) /\ ctl' # ctl

\* the primitive that ran last met a transport error of the set E and has
\* returned None with last_error set and the client disconnected
Surfaced(s, E) ==
    (s.op \in {"cmd", "query"} /\ s.fault \in E)
        => (s.ret = NoReply /\ s.last_error # "" /\ ~s.connected)

\* C22 as stated: every transport error met by send_cmd or send_query
\* (refused, reset, timeout; the expiry of the read deadline and the peer's
\* close among them) is returned as a failure with last_error set and marks
\* the client disconnected, and the next send_cmd / send_query makes one
\* reconnect attempt.
C22_EveryErrorDisconnects ==
    [][/\ Surfaced(ctl', {"refused", "reset", "timeout", "deadline", "closed"})
       /\ (IsSend /\ ctl.op \in {"cmd", "query"} /\ ctl.fault # "none")
             => ctl'.attempts = 1
      ]_vars

\* C22: every exception met by send_cmd or send_query (the reconnect refused,
\* sendall reset or timed out, the connection closed by the peer) is returned
\* as a failure with last_error set and marks the client disconnected, and the
\* next send_cmd / send_query makes exactly one reconnect attempt; the expiry
\* of send_query's read deadline is returned as a failure with last_error set
\* and the next primitive makes no reconnect attempt.
C22_RaisedErrorDisconnects ==
    [][/\ Surfaced(ctl', {"refused", "reset", "timeout", "closed"})
       /\ (IsSend /\ ctl.op \in {"cmd", "query"}
             /\ ctl.fault \in {"refused", "reset", "timeout", "closed"})
             => ctl'.attempts = 1
       /\ (IsSend /\ ctl.op = "query" /\ ctl.fault = "deadline")
             => (ctl.last_error # "" /\ ctl.ret = NoReply /\ ctl'.attempts = 0)
      ]_vars

\* a query found the client disconnected, reconnected at the first attempt and
\* then met the peer's close: it has failed and the client is disconnected
C22_Witness ==
    /\ ctl.op = "query"
    /\ ctl.fault = "closed"
    /\ ctl.attempts = 1
    /\ ctl.ret = NoReply
    /\ ~ctl.connected

\* the commands of a list, by name
Ops(cmds) == [i \in 1..Len(cmds) |-> cmds[i].op]

\* the call has returned and the instrument has processed every line sent
Processed(name) ==
    /\ ctl.call = name
    /\ ctl.pc = "done"
    /\ ctl.tx = <<>>
    /\ AtRecv(1)

C39_RunningMeansListMode ==
    list_running => (volt_mode = "LIST" \/ curr_mode = "LIST")

\* C40: a run started by VOLT:MODE LIST steps through list_volt and a run
\* started by CURR:MODE LIST steps through list_curr, whatever func_mode is:
\* what the executor resolves is what that list resolves to.
C40_ListOfStartingMode ==
    [][\A r \in Runners :
        (runner[r].pc = "snapshot" /\ runner'[r].pc # "snapshot")
            => LET want == IF runner[r].via = "VOLT:MODE LIST" THEN list_volt
                           ELSE list_curr
                   res == Resolved([Config EXCEPT !.points = want])
               IN  /\ runner'[r].points = res.points
                   /\ runner'[r].err = res.err
      ]_vars

\* C31: every dispatched fragment increases cmd_count by exactly one and every
\* returned response increases query_count by exactly one; a counter changes
\* in no other way except that *RST sets both to zero, and query_count never
\* exceeds cmd_count, also when fragments of several connections and a *RST
\* interleave.
C31_CountersInStep ==
    [][/\ \A c \in Conns :
             /\ (conn[c].pc = "next" /\ conn'[c].pc # "next")
                    => cmd_count' = cmd_count + 1
             /\ (conn[c].pc = "q" /\ conn'[c].pc # "q")
                    => query_count' = query_count + 1
       /\ cmd_count' \in {cmd_count, cmd_count + 1, 0}
       /\ query_count' \in {query_count, query_count + 1, 0}
       /\ query_count' <= cmd_count'
      ]_vars

\* C37: the exit cleanup of one LIST executor never ends a later run: an
\* executor whose run was stopped or reset does not clear list_running that a
\* later start has set, and does not set the stop event that a later start
\* has cleared for its own executor.
C37_CleanupSparesLaterRun ==
    [][\A r \in Runners :
        LET t == runner[r]
            stopped == t.cancelled \/ t.pre_reset
        IN  /\ (t.pc = "fin_lock" /\ runner'[r].pc = "fin_set" /\ stopped /\ list_running)
                  => list_running'
            /\ (t.pc = "fin_set" /\ runner'[r].pc = "idle" /\ stopped
                  /\ ~list_stop_event /\ \E q \in Runners \ {r} : Alive(q))
                  => ~list_stop_event'
      ]_vars

\* C38: a client disconnect stops a running LIST only when the disconnecting
\* connection issued the command that started the run in progress: the
\* _stop_list of a handler's finally block finds a run going only if that
\* connection's start set list_running.
C38_OnlyStarterDisconnectStops ==
    [][\A c \in Conns :
        (conn[c].pc = "stop_lock" /\ conn[c].ret = "closed"
           /\ conn'[c].pc # "stop_lock" /\ list_running)
            => hRunConn = c
      ]_vars

\* the echo a connection's server owes for a line
EchoOf(c, line) == IF conn[c].srv = "telnet" THEN line ELSE <<>>

\* C33: on the echo-enabled (Telnet) listener the echo of a received line is
\* sent to that connection when the line is received, before any of its
\* fragments is applied to the device and before any response to it; the
\* listener without echo sends no echo, only responses.
C33_EchoBeforeCommand ==
    [][\A c \in Conns :
        /\ (AtRecv(c) /\ conn'[c].parts # <<>>)
              => /\ conn'[c].echo = EchoOf(c, conn'[c].parts)
                 /\ conn'[c].resp = <<>>
                 /\ UNCHANGED deviceVars
        /\ (conn[c].pc = "next" /\ conn'[c].pc # "next")
              => conn[c].echo = EchoOf(c, <<conn'[c].cur>> \o conn'[c].parts)
                   \/ (conn[c].echo # <<>> /\ conn[c].srv = "telnet"
                         /\ Len(conn[c].echo) > Len(conn[c].parts))
        /\ Len(conn'[c].resp) > Len(conn[c].resp)
              => (conn[c].echo # <<>> <=> conn[c].srv = "telnet")
      ]_vars

\* the Telnet client's compound line has been echoed and answered
C33_Witness ==
    /\ conn[1].srv = "telnet"
    /\ Len(conn[1].echo) = 2
    /\ Len(conn[1].resp) = 1
    /\ AtRecv(1)

\* C36: after disconnect() the client opens no new connection and sends no
\* bytes to the instrument until connect() is called again: the operation that
\* follows a disconnect(), unless it is connect(), makes no connection attempt
\* and writes no line.
C36_DisconnectedStaysSilent ==
    [][(ctl.op = "disconnect" /\ ctl'.op \in {"cmd", "query"})
          => (ctl'.attempts = 0 /\ ctl'.tx = ctl.tx /\ ~ctl'.connected)
      ]_vars

\* upload_list_chunk has handed its setup commands to send_cmd in their
\* order and only then LIST:VOLT value commands, and is in phase 1 or 2 only
\* while every command so far has been sent
SetupFirst ==
    /\ \A i \in 1..Len(ctl.ops) :
          ctl.ops[i] = IF i <= Len(SetupCmds(ctl.dwell))
                       THEN Ops(SetupCmds(ctl.dwell))[i] ELSE "LIST:VOLT"
    /\ ctl.pc = "values" => Len(ctl.ops) >= Len(SetupCmds(ctl.dwell))
    /\ ctl.pc \in {"setup", "values"} => ctl.connected

\* upload_list_chunk has returned the failure of the command it sent last
FailedAt(msg) == ctl.pc = "done" /\ ~ctl.result.ok /\ ctl.result.msg = msg

InInterval(s, t) == s.th[t].pc = "written"

\* C34: for one controller used by several threads, at most one thread at a
\* time is between writing its line and finishing its pacing sleep and echo
\* drain or its response read, and no line is written to the socket while a
\* thread is in that interval.
C34_OneCallerInInterval ==
    [][/\ \A t, u \in Threads : (InInterval(ctl', t) /\ InInterval(ctl', u)) => t = u
       /\ \A t \in Threads : InInterval(ctl', t) => ctl'.lock = t
       /\ Len(ctl'.tx) > Len(ctl.tx) => \A t \in Threads : ~InInterval(ctl, t)
      ]_vars

\* a thread is in its interval while the other waits for the lock
C34_Witness ==
    /\ InInterval(ctl, 1)
    /\ ctl.th[2].pc = "wait"
    /\ ctl.lock = 1
    /\ ctl.tx # <<>>

\* the threads that hold the device lock are in the body of a block that
\* enters no other block and does not sleep
HoldersGoOn ==
    /\ \A c \in Conns :
          conn[c].holds => /\ Head(conn[c].blocks).inner = <<>>
                           /\ Head(conn[c].blocks).do # "sleep"
    /\ \A r \in Runners :
          runner[r].holds => /\ Head(runner[r].blocks).inner = <<>>
                             /\ Head(runner[r].blocks).do # "sleep"

====
